---- MODULE Spec2Model ----
(***************************************************************************)
(* auto-cr: the scan pipeline (run / main of auto-cr-cmd), the worker pool *)
(* (runWorkerPool), the worker message handler, analyzeFile and the        *)
(* no-circular-dependencies rule with its process-wide reportedCycles set. *)
(***************************************************************************)
EXTENDS Integers, Sequences, FiniteSets, TLC

(* ---------------------------------------------------------------------- *)
(* Bounds of the model                                                     *)
(* ---------------------------------------------------------------------- *)
MaxInput == 3
MaxWorkers == 2
MaxCrashes == 1
MaxRuns == 3
MaxFiles == 21
MaxCpus == 23
MaxDepth == 3
MaxPieces == 4
MaxSource == 3
MaxStart == 2
MaxNesting == 2
MaxStmts == 2
MaxModules == 3
MaxImports == 2
MaxBeyond == 2
MaxBranch == 40
MaxCycle == 4

(* ---------------------------------------------------------------------- *)
(* Program constants                                                       *)
(* ---------------------------------------------------------------------- *)
MAX_GRAPH_NODES == 2000
MAX_GRAPH_DEPTH == 80
MIN_FILES_FOR_WORKERS == 20

(* ---------------------------------------------------------------------- *)
(* The file system the scan observes (read-only during a scan)             *)
(* ---------------------------------------------------------------------- *)
AllPaths == {"a.ts", "b.ts", "p.ts", "u.ts", "m.ts", "i.ts", "x.d.ts"}

\* String order of the path names (JavaScript `<` on the strings).
Rank == [p \in AllPaths |->
           CASE p = "a.ts" -> 1 [] p = "b.ts" -> 2 [] p = "i.ts" -> 3
             [] p = "m.ts" -> 4 [] p = "p.ts" -> 5 [] p = "u.ts" -> 6
             [] OTHER -> 7]

\* fs.existsSync
checkPathExists(p) == p # "m.ts"

\* the ignore matcher built from the ignore patterns
isIgnored(p) == p = "i.ts"

\* filePath.endsWith one of .ts/.tsx/.js/.jsx: every path of AllPaths does
isScannableFile(p) == p \in {"a.ts", "b.ts", "p.ts", "u.ts", "m.ts", "i.ts", "x.d.ts"}

\* candidate.endsWith('.d.ts')
IsDeclarationFile(p) == p = "x.d.ts"

\* fs.readFileSync throws for this file (it vanished or cannot be read)
ReadFails(p) == p = "u.ts"

\* parseSync throws for this file
ParseFails(p) == p = "p.ts"

\* import references of each file, already resolved, in source order
ImportRefs == [p \in AllPaths |->
                 CASE p = "a.ts" -> <<"b.ts">>
                   [] p = "b.ts" -> <<"a.ts">>
                   [] p = "p.ts" -> <<"a.ts">>
                   [] OTHER -> <<>>]

\* the rule list after applyRuleConfig: built-in order, severities as configured
Rules == << [name |-> "no-deep-relative-imports", severity |-> "warning"],
            [name |-> "no-circular-dependencies", severity |-> "warning"],
            [name |-> "no-swallowed-errors", severity |-> "error"],
            [name |-> "no-n2-array-lookup", severity |-> "optimizing"] >>

\* number of findings of the rules that look at one file only
StaticFindings(ruleName, file) ==
  CASE ruleName = "no-deep-relative-imports" /\ file = "b.ts" -> 1
    [] ruleName = "no-swallowed-errors" /\ file = "b.ts" -> 2
    [] ruleName = "no-n2-array-lookup" /\ file = "a.ts" -> 1
    [] OTHER -> 0

(* ---------------------------------------------------------------------- *)
(* Sequence helpers                                                        *)
(* ---------------------------------------------------------------------- *)
RECURSIVE CountSeverity(_, _)
CountSeverity(vs, sev) ==
  IF vs = <<>> THEN 0
  ELSE (IF Head(vs).severity = sev THEN 1 ELSE 0) + CountSeverity(Tail(vs), sev)

\* Array.from(new Set(list)): first occurrences, in order
RECURSIVE Dedupe(_, _)
Dedupe(s, seen) ==
  IF s = <<>> THEN <<>>
  ELSE IF Head(s) \in seen THEN Dedupe(Tail(s), seen)
       ELSE <<Head(s)>> \o Dedupe(Tail(s), seen \cup {Head(s)})

\* JavaScript string `<` on two "->"-joined chains of path names
RECURSIVE LexLess(_, _)
LexLess(s, t) ==
  IF t = <<>> THEN FALSE
  ELSE IF s = <<>> THEN TRUE
  ELSE IF Rank[Head(s)] < Rank[Head(t)] THEN TRUE
  ELSE IF Rank[Head(s)] > Rank[Head(t)] THEN FALSE
  ELSE LexLess(Tail(s), Tail(t))

(* ---------------------------------------------------------------------- *)
(* no-circular-dependencies                                                *)
(* ---------------------------------------------------------------------- *)
\* a cycle key is the chain of names that the code joins with "->"
RECURSIVE BestRotation(_, _, _)
BestRotation(unique, index, best) ==
  IF index >= Len(unique) THEN best
  ELSE LET rotated == SubSeq(unique, index + 1, Len(unique)) \o SubSeq(unique, 1, index)
       IN BestRotation(unique, index + 1, IF LexLess(rotated, best) THEN rotated ELSE best)

\* mutant: only the first rotation is compared with the chain as found
buildCycleKeyOneRotation(cycle) ==
  IF Len(cycle) <= 2 THEN cycle
  ELSE LET unique == SubSeq(cycle, 1, Len(cycle) - 1)
           rotated == Tail(unique) \o <<Head(unique)>>
       IN IF LexLess(rotated, unique) THEN rotated ELSE unique

\* mutant: the key is the chain as found, never rotated to its least form
buildCycleKeyAsFound(cycle) == cycle

buildCycleKey(cycle) ==
  IF Len(cycle) <= 2 THEN cycle
  ELSE LET unique == SubSeq(cycle, 1, Len(cycle) - 1)
       IN BestRotation(unique, 1, unique)

getResolvedImports(filePath) ==
  IF ReadFails(filePath) \/ ~checkPathExists(filePath) THEN <<>>
  ELSE Dedupe(ImportRefs[filePath], {})

\* the resolved imports of every file, as getResolvedImports answers
ResolvedImports == [p \in AllPaths |-> getResolvedImports(p)]

\* the state of one search before its first step; result <<>> stands for
\* null. expanded and deepest are history: the number of modules whose
\* imports were computed and the largest depth at which that happened
NoSearch == [result |-> <<>>, nodesVisited |-> 0, deadEnds |-> {}, expanded |-> 0, deepest |-> 0]

\* walk returns the state of the search with the result of this call;
\* imports[file] is what getResolvedImports(file, root, resolver) returns
RECURSIVE walk(_, _, _, _, _, _)
RECURSIVE walkNeighbors(_, _, _, _, _, _, _, _)

walk(current, depth, origin, visiting, st, imports) ==
  IF depth > MAX_GRAPH_DEPTH THEN [st EXCEPT !.result = <<>>]
  ELSE IF current = origin THEN [st EXCEPT !.result = <<origin>>]
  ELSE IF current \in st.deadEnds THEN [st EXCEPT !.result = <<>>]
  ELSE IF current \in visiting THEN [st EXCEPT !.result = <<>>]
  ELSE IF st.nodesVisited + 1 > MAX_GRAPH_NODES
       THEN [st EXCEPT !.result = <<>>, !.nodesVisited = @ + 1]
  ELSE walkNeighbors(imports[current], 1, current, depth, origin,
                     visiting \cup {current},
                     [st EXCEPT !.nodesVisited = @ + 1, !.expanded = @ + 1,
                                !.deepest = IF depth > @ THEN depth ELSE @],
                     imports)

walkNeighbors(neighbors, i, current, depth, origin, visiting, st, imports) ==
  IF i > Len(neighbors)
  THEN [st EXCEPT !.result = <<>>, !.deadEnds = @ \cup {current}]
  ELSE LET after(r) ==
             IF r.result # <<>>
             THEN [r EXCEPT !.result = <<current>> \o r.result]
             ELSE walkNeighbors(neighbors, i + 1, current, depth, origin, visiting, r, imports)
       IN after(walk(neighbors[i], depth + 1, origin, visiting, st, imports))

\* the search of findPathToOrigin: walk(start, 0) on fresh search state
searchPathToOrigin(start, origin, imports) ==
  walk(start, 0, origin, {}, NoSearch, imports)

findPathToOrigin(start, origin, imports) ==
  searchPathToOrigin(start, origin, imports).result

\* the rule body: one pass over the import references of `filePath`;
\* acc = [chains reported so far, reportedCycles of this process]
RECURSIVE cycleRuleLoop(_, _, _, _)
cycleRuleLoop(origin, refs, i, acc) ==
  IF i > Len(refs) THEN acc
  ELSE LET report(cycle, cycleKey) ==
             IF cycleKey \in acc.reported THEN acc
             ELSE [chains |-> Append(acc.chains, [line |-> i, chain |-> cycle]),
                   reported |-> acc.reported \cup {cycleKey}]
           visit(pathToOrigin) ==
             IF pathToOrigin = <<>> THEN acc
             ELSE report(<<origin>> \o pathToOrigin, buildCycleKey(<<origin>> \o pathToOrigin))
       IN cycleRuleLoop(origin, refs, i + 1, visit(findPathToOrigin(refs[i], origin, ResolvedImports)))

noCircularDependencies(filePath, reported) ==
  cycleRuleLoop(filePath, ImportRefs[filePath], 1, [chains |-> <<>>, reported |-> reported])


(* ---------------------------------------------------------------------- *)
(* Reporter and analyzeFile                                                *)
(* ---------------------------------------------------------------------- *)
\* reporter.flush(): the per-file snapshot with its severity accounting
Flush(records) ==
  [severityCounts |-> [error |-> CountSeverity(records, "error"),
                       warning |-> CountSeverity(records, "warning"),
                       optimizing |-> CountSeverity(records, "optimizing")],
   totalViolations |-> Len(records),
   errorViolations |-> CountSeverity(records, "error"),
   violations |-> records]

\* the rule whose run() throws on a file, after it has reported its findings
RuleThrows(ruleName, file) == ruleName = "no-deep-relative-imports" /\ file = "b.ts"

\* rule.run(context) for one rule: the records it pushes through the scoped
\* reporter, the reportedCycles set of the process afterwards, and whether
\* run() threw
RunRule(rule, file, reported) ==
  IF rule.name = "no-circular-dependencies"
  THEN LET reportViolations(r) ==
             [records |-> [k \in 1..Len(r.chains) |->
                             [ruleName |-> rule.name, severity |-> rule.severity,
                              line |-> r.chains[k].line, code |-> r.chains[k].chain]],
              reported |-> r.reported,
              threw |-> RuleThrows(rule.name, file)]
       IN reportViolations(noCircularDependencies(file, reported))
  ELSE [records |-> [k \in 1..StaticFindings(rule.name, file) |->
                       [ruleName |-> rule.name, severity |-> rule.severity,
                        line |-> k, code |-> <<>>]],
        reported |-> reported,
        threw |-> RuleThrows(rule.name, file)]

\* log('error', t.ruleExecutionFailed({ ruleName, file }), error)
ruleExecutionFailed(ruleName, file) ==
  [level |-> "error", message |-> "ruleExecutionFailed", file |-> file, rule |-> ruleName]

\* mutant: the rule loop ends at the first rule that throws
RECURSIVE runRulesUntilThrow(_, _, _, _)
runRulesUntilThrow(file, rules, i, acc) ==
  IF i > Len(rules) THEN acc
  ELSE LET collect(r) ==
             [records |-> acc.records \o r.records, reported |-> r.reported,
              logs |-> IF r.threw THEN Append(acc.logs, ruleExecutionFailed(rules[i].name, file))
                       ELSE acc.logs]
           stop(r) == IF r.threw THEN Len(rules) + 1 ELSE i + 1
       IN runRulesUntilThrow(file, rules, stop(RunRule(rules[i], file, acc.reported)),
                             collect(RunRule(rules[i], file, acc.reported)))

\* the rule loop of analyzeFile; acc = [records, reported, logs]
RECURSIVE runRules(_, _, _, _)
runRules(file, rules, i, acc) ==
  IF i > Len(rules) THEN acc
  ELSE LET collect(r) ==
             [records |-> acc.records \o r.records, reported |-> r.reported,
              logs |-> IF r.threw THEN Append(acc.logs, ruleExecutionFailed(rules[i].name, file))
                       ELSE acc.logs]
       IN runRules(file, rules, i + 1, collect(RunRule(rules[i], file, acc.reported)))

\* mutant: a parse failure that is not counted as an error
ParseFailureSummaryUncounted ==
  [severityCounts |-> [error |-> 0, warning |-> 0, optimizing |-> 0],
   totalViolations |-> 0,
   errorViolations |-> 0,
   violations |-> <<>>]

ParseFailureSummary ==
  [severityCounts |-> [error |-> 1, warning |-> 0, optimizing |-> 0],
   totalViolations |-> 1,
   errorViolations |-> 1,
   violations |-> <<>>]

analyzeFile(file, rules, reported) ==
  IF ReadFails(file)
  THEN [threw |-> TRUE, summary |-> ParseFailureSummary, logs |-> <<>>, reported |-> reported]
  ELSE IF ParseFails(file)
  THEN [threw |-> FALSE, summary |-> ParseFailureSummary,
        logs |-> << [level |-> "error", message |-> "parseFileFailed", file |-> file,
                     rule |-> ""] >>,
        reported |-> reported]
  ELSE LET result(summary, reportedAfter, logs) ==
             [threw |-> FALSE,
              summary |-> [severityCounts |-> summary.severityCounts,
                           totalViolations |-> summary.totalViolations,
                           errorViolations |-> summary.errorViolations,
                           violations |-> summary.violations],
              logs |-> logs,
              reported |-> reportedAfter]
           flushed(r) == result(Flush(r.records), r.reported, r.logs)
       IN flushed(runRules(file, rules, 1,
                           [records |-> <<>>, reported |-> reported, logs |-> <<>>]))

(* ---------------------------------------------------------------------- *)
(* run(): accumulators and the helpers that both scan modes share          *)
(* ---------------------------------------------------------------------- *)
VARIABLES
  outputFormat      \* the format parameter of run(): "text" or "json"

\* the locals of run() that the per-file bookkeeping mutates
EmptyAcc ==
  [filesWithErrors |-> 0, filesWithWarnings |-> 0, filesWithOptimizing |-> 0,
   totalViolations |-> 0, totalErrorViolations |-> 0,
   totalWarningViolations |-> 0, totalOptimizingViolations |-> 0,
   fileSummaries |-> <<>>, notifications |-> <<>>, output |-> <<>>]

\* what reaches the console: a notification, or the violations of one file
LogOutput(record) == [kind |-> "log", file |-> record.file, record |-> record, violations |-> <<>>]
ViolationsOutput(filePath, violations) ==
  [kind |-> "violations", file |-> filePath,
   record |-> [level |-> "", message |-> "", file |-> "", rule |-> ""],
   violations |-> violations]

logRecord(A, record) ==
  [A EXCEPT !.notifications = Append(@, record),
            !.output = IF outputFormat = "text" THEN Append(@, LogOutput(record)) ELSE @]

\* the call of renderViolations in run(), made in the text format only
renderViolations(A, filePath, violations) ==
  IF outputFormat = "text"
  THEN [A EXCEPT !.output = Append(@, ViolationsOutput(filePath, violations))]
  ELSE A

RECURSIVE logRecords(_, _)
logRecords(A, logs) ==
  IF logs = <<>> THEN A ELSE logRecords(logRecord(A, Head(logs)), Tail(logs))

\* mutant: the warnings of a file are not added to the total of warnings
applyFileSummaryLosesWarnings(A, filePath, summary) ==
  [A EXCEPT
     !.filesWithErrors = @ + (IF summary.severityCounts.error > 0 THEN 1 ELSE 0),
     !.filesWithWarnings = @ + (IF summary.severityCounts.warning > 0 THEN 1 ELSE 0),
     !.filesWithOptimizing = @ + (IF summary.severityCounts.optimizing > 0 THEN 1 ELSE 0),
     !.totalViolations = @ + summary.totalViolations,
     !.totalErrorViolations = @ + summary.errorViolations,
     !.totalOptimizingViolations = @ + summary.severityCounts.optimizing,
     !.fileSummaries = Append(@, [filePath |-> filePath,
                                  severityCounts |-> summary.severityCounts,
                                  totalViolations |-> summary.totalViolations,
                                  errorViolations |-> summary.errorViolations,
                                  violations |-> summary.violations])]

applyFileSummary(A, filePath, summary) ==
  [A EXCEPT
     !.filesWithErrors = @ + (IF summary.severityCounts.error > 0 THEN 1 ELSE 0),
     !.filesWithWarnings = @ + (IF summary.severityCounts.warning > 0 THEN 1 ELSE 0),
     !.filesWithOptimizing = @ + (IF summary.severityCounts.optimizing > 0 THEN 1 ELSE 0),
     !.totalViolations = @ + summary.totalViolations,
     !.totalErrorViolations = @ + summary.errorViolations,
     !.totalWarningViolations = @ + summary.severityCounts.warning,
     !.totalOptimizingViolations = @ + summary.severityCounts.optimizing,
     !.fileSummaries = Append(@, [filePath |-> filePath,
                                  severityCounts |-> summary.severityCounts,
                                  totalViolations |-> summary.totalViolations,
                                  errorViolations |-> summary.errorViolations,
                                  violations |-> summary.violations])]

\* the ScanSummary that run() returns
ScanSummary(A, scannedFiles) ==
  [scannedFiles |-> scannedFiles,
   filesWithErrors |-> A.filesWithErrors,
   filesWithWarnings |-> A.filesWithWarnings,
   filesWithOptimizing |-> A.filesWithOptimizing,
   violationTotals |-> [total |-> A.totalViolations,
                        error |-> A.totalErrorViolations,
                        warning |-> A.totalWarningViolations,
                        optimizing |-> A.totalOptimizingViolations],
   files |-> A.fileSummaries,
   notifications |-> A.notifications]

NoSummary == [scannedFiles |-> -1]

Min(x, y) == IF x < y THEN x ELSE y
Max(x, y) == IF x > y THEN x ELSE y

\* Numbers that need not be whole are counted in halves: h stands for h / 2
MathFloor(halves) == halves \div 2

\* mutant: the override is taken as it is, without the clamp to the file count
resolveWorkerCountUnclamped(totalFiles, env, cpus) ==
  IF env.present /\ ~env.isNaN /\ env.halves >= 0 THEN MathFloor(env.halves)
  ELSE IF totalFiles < MIN_FILES_FOR_WORKERS THEN 1
  ELSE Min(Max(1, (IF cpus = 0 THEN 1 ELSE cpus) - 1), totalFiles)

\* env is AUTO_CR_WORKERS: present (a non-empty string) or not, and what
\* Number(override) gives for it, NaN or a number (in halves);
\* cpus is os.cpus().length
resolveWorkerCount(totalFiles, env, cpus) ==
  IF env.present /\ ~env.isNaN /\ env.halves >= 0
  THEN Min(totalFiles, MathFloor(env.halves))
  ELSE IF totalFiles < MIN_FILES_FOR_WORKERS THEN 1
  ELSE LET cpuCount == IF cpus = 0 THEN 1 ELSE cpus
       IN Min(Max(1, cpuCount - 1), totalFiles)

\* filePaths.filter(checkPathExists)
RECURSIVE validPathsOf(_)
validPathsOf(paths) ==
  IF paths = <<>> THEN <<>>
  ELSE IF checkPathExists(Head(paths)) THEN <<Head(paths)>> \o validPathsOf(Tail(paths))
       ELSE validPathsOf(Tail(paths))

\* the expansion loop of run(): every input of the model is a plain file
RECURSIVE allFilesOf(_)
allFilesOf(paths) ==
  IF paths = <<>> THEN <<>>
  ELSE IF isIgnored(Head(paths)) THEN allFilesOf(Tail(paths))
  ELSE IF ~isIgnored(Head(paths)) /\ isScannableFile(Head(paths))
       THEN <<Head(paths)>> \o allFilesOf(Tail(paths))
  ELSE allFilesOf(Tail(paths))

\* mutant: declaration files are not filtered out
RECURSIVE scannableFilesKeepDeclarations(_)
scannableFilesKeepDeclarations(files) ==
  IF files = <<>> THEN <<>>
  ELSE IF ~isIgnored(Head(files))
       THEN <<Head(files)>> \o scannableFilesKeepDeclarations(Tail(files))
  ELSE scannableFilesKeepDeclarations(Tail(files))

RECURSIVE scannableFilesOf(_)
scannableFilesOf(files) ==
  IF files = <<>> THEN <<>>
  ELSE IF ~IsDeclarationFile(Head(files)) /\ ~isIgnored(Head(files))
       THEN <<Head(files)>> \o scannableFilesOf(Tail(files))
  ELSE scannableFilesOf(Tail(files))

\* mutant: the loop never looks a file up in fileSummaryCache
SingleStepUncached(A, cache, reported, file) ==
  LET analyzed(r) ==
        IF r.threw
        THEN [threw |-> TRUE, acc |-> A, cache |-> cache, reported |-> reported,
              analyzed |-> TRUE]
        ELSE [threw |-> FALSE, analyzed |-> TRUE,
              acc |-> applyFileSummary(
                        renderViolations(logRecords(A, r.logs), file, r.summary.violations),
                        file, r.summary),
              cache |-> (file :> [summary |-> r.summary, logs |-> r.logs]) @@ cache,
              reported |-> r.reported]
  IN analyzed(analyzeFile(file, Rules, reported))

\* one iteration of the single-threaded loop over scannableFiles
SingleStep(A, cache, reported, file) ==
  IF file \in DOMAIN cache
  THEN [threw |-> FALSE,
        acc |-> applyFileSummary(
                  renderViolations(logRecords(A, cache[file].logs), file,
                                   cache[file].summary.violations),
                  file, cache[file].summary),
        cache |-> cache, reported |-> reported, analyzed |-> FALSE]
  ELSE LET analyzed(r) ==
             IF r.threw
             THEN [threw |-> TRUE, acc |-> A, cache |-> cache, reported |-> reported,
                   analyzed |-> TRUE]
             ELSE [threw |-> FALSE, analyzed |-> TRUE,
                   acc |-> applyFileSummary(
                             renderViolations(logRecords(A, r.logs), file, r.summary.violations),
                             file, r.summary),
                   cache |-> (file :> [summary |-> r.summary, logs |-> r.logs]) @@ cache,
                   reported |-> r.reported]
       IN analyzed(analyzeFile(file, Rules, reported))

\* mutant: whatever has completed is flushed at once, in completion order
RECURSIVE flushCompletedResults(_, _, _, _)
flushCompletedResults(A, pending, next, files) ==
  IF DOMAIN pending # {}
  THEN LET k == CHOOSE x \in DOMAIN pending : \A y \in DOMAIN pending : x <= y
       IN flushCompletedResults(
            applyFileSummary(
              renderViolations(logRecords(A, pending[k].logs), files[k],
                               pending[k].summary.violations),
              files[k], pending[k].summary),
            [j \in DOMAIN pending \ {k} |-> pending[j]], next + 1, files)
  ELSE [acc |-> A, pendingResults |-> pending, nextOutputIndex |-> next]

\* mutant: the violations of a file are rendered before its logs are replayed
RECURSIVE flushReadyResultsViolationsFirst(_, _, _, _)
flushReadyResultsViolationsFirst(A, pending, next, files) ==
  IF next \in DOMAIN pending
  THEN flushReadyResultsViolationsFirst(
         applyFileSummary(
           logRecords(renderViolations(A, files[next], pending[next].summary.violations),
                      pending[next].logs),
           files[next], pending[next].summary),
         [k \in DOMAIN pending \ {next} |-> pending[k]], next + 1, files)
  ELSE [acc |-> A, pendingResults |-> pending, nextOutputIndex |-> next]

\* flushReadyResults: pending is keyed by the position in scannableFiles
RECURSIVE flushReadyResults(_, _, _, _)
flushReadyResults(A, pending, next, files) ==
  IF next \in DOMAIN pending
  THEN flushReadyResults(
         applyFileSummary(
           renderViolations(logRecords(A, pending[next].logs), files[next],
                            pending[next].summary.violations),
           files[next], pending[next].summary),
         [k \in DOMAIN pending \ {next} |-> pending[k]], next + 1, files)
  ELSE [acc |-> A, pendingResults |-> pending, nextOutputIndex |-> next]

\* onResult of the parallel path
onResult(A, pending, next, files, msg) ==
  LET occurrences == {k \in 1..Len(files) : files[k] = msg.filePath}
      stored == [k \in DOMAIN pending \cup occurrences |->
                   IF k \in occurrences THEN [summary |-> msg.summary, logs |-> msg.logs]
                   ELSE pending[k]]
  IN flushReadyResults(A, stored, next, files)

(* ---------------------------------------------------------------------- *)
(* State                                                                   *)
(* ---------------------------------------------------------------------- *)
VARIABLES
  filePaths,        \* the resolved CLI / stdin targets handed to run()
  envWorkers,       \* AUTO_CR_WORKERS
  pc,               \* position of main: start, single, pool, returned, threw
  scannableFiles,
  workerCount,
  acc,              \* counters, fileSummaries and notifications of run()
  reportedCycles,   \* module-level set of the main process
  fileSummaryCache,
  cursor,           \* position of the single-threaded loop
  pendingResults,
  nextOutputIndex,
  tasks,            \* runWorkerPool: the unique files, task id = position - 1
  nextTaskIndex,
  completed,
  settled,          \* "pending", "resolved" or "rejected"
  poolError,        \* the error the pool promise rejected with
  terminated,       \* the workers terminate() has been called on
  wstatus,          \* per worker: starting (thread not yet running), idle, busy
                    \* (inside analyzeFile) or exited
  wreported,        \* per worker: its own module-level reportedCycles
  running,          \* per worker: the request its handler is analysing, if any
  inbox,            \* per worker: messages posted by the pool, not yet received
  chan,             \* per worker: messages and thread events not yet handled by main
  summary,          \* what run() returned
  exitCode,
  crashes,          \* number of worker crashes so far
  onResultCalls,    \* history: invocations of onResult
  replyCount,       \* history: task id -> replies posted by workers
  handled,          \* history: task ids whose handler ran to completion
  requests,         \* history: per worker, the task ids assignTask posted to it
  analyses,         \* history: path -> calls of analyzeFile on it
  ruleRuns,         \* SpecRule: the rule runs of one process, in order
  call              \* the specifications of one function: its call and its result

vars == <<filePaths, envWorkers, outputFormat, pc, scannableFiles, workerCount, acc,
          reportedCycles, fileSummaryCache, cursor, pendingResults, nextOutputIndex,
          tasks, nextTaskIndex, completed, settled, poolError, terminated, wstatus,
          wreported, running,
          inbox, chan, summary, exitCode, crashes, onResultCalls, replyCount, handled,
          requests, analyses, ruleRuns, call>>

mainVars == <<acc, reportedCycles, fileSummaryCache, cursor, summary, exitCode>>
poolVars == <<pendingResults, nextOutputIndex, tasks, nextTaskIndex, completed, settled,
              poolError, terminated>>
workerVars == <<wstatus, wreported, running, inbox, chan>>
inputVars == <<filePaths, envWorkers, outputFormat, scannableFiles, workerCount>>
historyVars == <<crashes, onResultCalls, replyCount, handled, requests, analyses>>
ruleVars == <<ruleRuns, call>>

CpuCount == 4

RECURSIVE SeqsUpTo(_, _)
SeqsUpTo(S, n) ==
  IF n = 0 THEN {<<>>}
  ELSE LET shorter == SeqsUpTo(S, n - 1)
       IN shorter \cup {Append(q, x) : q \in shorter, x \in S}

EnvUnset == [present |-> FALSE, isNaN |-> FALSE, halves |-> 0]

EnvChoices ==
  {EnvUnset} \cup
  {[present |-> TRUE, isNaN |-> FALSE, halves |-> n + n] : n \in (-1)..MaxWorkers}

NoCall == [fn |-> "", args |-> <<>>, done |-> FALSE, result |-> 0]

Init ==
  /\ filePaths \in SeqsUpTo(AllPaths, MaxInput)
  /\ envWorkers \in EnvChoices
  /\ outputFormat \in {"text", "json"}
  /\ pc = "start"
  /\ scannableFiles = <<>>
  /\ workerCount = 0
  /\ acc = EmptyAcc
  /\ reportedCycles = {}
  /\ fileSummaryCache = <<>>
  /\ cursor = 1
  /\ pendingResults = <<>>
  /\ nextOutputIndex = 1
  /\ tasks = <<>>
  /\ nextTaskIndex = 0
  /\ completed = 0
  /\ settled = "pending"
  /\ poolError = ""
  /\ terminated = {}
  /\ wstatus = <<>>
  /\ wreported = <<>>
  /\ running = <<>>
  /\ inbox = <<>>
  /\ chan = <<>>
  /\ summary = NoSummary
  /\ exitCode = -1
  /\ crashes = 0
  /\ onResultCalls = 0
  /\ replyCount = <<>>
  /\ handled = {}
  /\ requests = <<>>
  /\ analyses = [p \in AllPaths |-> 0]
  /\ ruleRuns = <<>>
  /\ call = NoCall

(* ---------------------------------------------------------------------- *)
(* run(): from the call to its first await                                 *)
(* ---------------------------------------------------------------------- *)
ReturnEarly(level, message) ==
  /\ acc' = logRecord(acc, [level |-> level, message |-> message, file |-> "", rule |-> ""])
  /\ summary' = ScanSummary(acc', 0)
  /\ pc' = "returned"
  /\ UNCHANGED ruleVars
  /\ UNCHANGED <<scannableFiles, workerCount, tasks, nextTaskIndex, wstatus,
                 wreported, running, inbox, chan, replyCount, requests>>

\* no request in the hands of a worker's handler
NoTask == [id |-> -1, filePath |-> ""]

\* the message assignTask posts for the task at position nextTaskIndex (0-based)
TaskMessage(taskList, index) ==
  IF index >= Len(taskList) THEN [type |-> "shutdown", id |-> -1, filePath |-> ""]
  ELSE [type |-> "analyze", id |-> index, filePath |-> taskList[index + 1]]

Run ==
  /\ pc = "start"
  /\ LET validPaths == validPathsOf(filePaths)
         allFiles == allFilesOf(validPaths)
         files == scannableFilesOf(allFiles)
         count == resolveWorkerCount(Len(files), envWorkers, CpuCount)
         uniqueFiles == Dedupe(files, {})
         actualCount == Max(1, Min(count, Len(uniqueFiles)))
     IN IF Len(filePaths) = 0 THEN ReturnEarly("info", "noPathsProvided")
        ELSE IF Len(validPaths) = 0 THEN ReturnEarly("error", "allPathsMissing")
        ELSE IF Len(allFiles) = 0 THEN ReturnEarly("info", "noFilesFound")
        ELSE /\ scannableFiles' = files
             /\ workerCount' = count
             /\ IF count > 1
                THEN \* runWorkerPool: start the workers, one first task each
                     /\ pc' = "pool"
                     /\ tasks' = uniqueFiles
                     /\ nextTaskIndex' = actualCount
                     /\ wstatus' = [w \in 1..actualCount |-> "starting"]
                     /\ wreported' = [w \in 1..actualCount |-> {}]
                     /\ running' = [w \in 1..actualCount |-> NoTask]
                     /\ inbox' = [w \in 1..actualCount |-> <<TaskMessage(uniqueFiles, w - 1)>>]
                     /\ chan' = [w \in 1..actualCount |-> <<>>]
                     /\ replyCount' = [id \in 0..(Len(uniqueFiles) - 1) |-> 0]
                     /\ requests' = [w \in 1..actualCount |-> <<w - 1>>]
                     /\ UNCHANGED <<acc, summary>>
                ELSE /\ UNCHANGED <<tasks, nextTaskIndex, wstatus, wreported, running,
                                    inbox, chan, replyCount, requests, acc>>
                     /\ IF Len(files) = 0
                        THEN /\ pc' = "returned"
                             /\ summary' = ScanSummary(acc, 0)
                        ELSE /\ pc' = "single"
                             /\ UNCHANGED summary
  /\ UNCHANGED ruleVars
  /\ UNCHANGED <<filePaths, envWorkers, outputFormat, reportedCycles, fileSummaryCache,
                 cursor, pendingResults, nextOutputIndex, completed, settled, poolError,
                 terminated,
                 exitCode, crashes, onResultCalls, handled, analyses>>

(* ---------------------------------------------------------------------- *)
(* run(): the single-threaded loop, one file per step                      *)
(* ---------------------------------------------------------------------- *)
ScanNextFile ==
  /\ pc = "single"
  /\ cursor <= Len(scannableFiles)
  /\ \E r \in {SingleStep(acc, fileSummaryCache, reportedCycles, scannableFiles[cursor])} :
        /\ acc' = r.acc
        /\ fileSummaryCache' = r.cache
        /\ reportedCycles' = r.reported
        /\ analyses' = IF r.analyzed
                       THEN [analyses EXCEPT ![scannableFiles[cursor]] = @ + 1]
                       ELSE analyses
        /\ IF r.threw
           THEN /\ pc' = "threw"
                /\ UNCHANGED <<cursor, summary>>
           ELSE /\ cursor' = cursor + 1
                /\ IF cursor = Len(scannableFiles)
                   THEN /\ pc' = "returned"
                        /\ summary' = ScanSummary(r.acc, Len(scannableFiles))
                   ELSE /\ pc' = "single"
                        /\ UNCHANGED summary
  /\ UNCHANGED ruleVars
  /\ UNCHANGED <<inputVars, poolVars, workerVars, exitCode, crashes, onResultCalls,
                 replyCount, handled, requests>>

(* ---------------------------------------------------------------------- *)
(* runWorkerPool: the handlers of the main thread                          *)
(* ---------------------------------------------------------------------- *)
ResultMessage(task, r) ==
  [type |-> "result", id |-> task.id, filePath |-> task.filePath,
   summary |-> r.summary, logs |-> r.logs, code |-> 0]

ErrorMessage(task) ==
  [type |-> "error", id |-> task.id, filePath |-> task.filePath,
   summary |-> ParseFailureSummary, logs |-> <<>>, code |-> 0]

ThreadEvent(type, code) ==
  [type |-> type, id |-> -1, filePath |-> "",
   summary |-> ParseFailureSummary, logs |-> <<>>, code |-> code]

\* mutant: the .finally of the pool promise terminates only the first worker
terminateFirst(status) == {1}

\* terminateAll(): worker.terminate() on every worker of the workers array
terminateAll(status) == DOMAIN status

\* finish(error?): the first call settles the pool promise, later calls do
\* nothing
finish(outcome) == IF settled # "pending" THEN settled ELSE outcome

\* the memory of a stopped thread is gone: its message queue, its module state
discard(status, perWorker, empty) ==
  [w \in DOMAIN perWorker |-> IF status[w] = "exited" THEN empty ELSE perWorker[w]]

\* worker.postMessage: a stopped thread receives nothing
postMessage(boxes, status, w, message) ==
  IF status[w] = "exited" THEN boxes
  ELSE [boxes EXCEPT ![w] = Append(@, message)]

\* mutant: the next task goes to the worker after the one that answered
assignTaskToNextWorker(w, taskList, index, boxes, status, sent) ==
  LET other == (w % Len(status)) + 1
  IN IF index >= Len(taskList)
     THEN [inbox |-> postMessage(boxes, status, other, TaskMessage(taskList, index)),
           nextTaskIndex |-> index, requests |-> sent]
     ELSE [inbox |-> postMessage(boxes, status, other, TaskMessage(taskList, index)),
           nextTaskIndex |-> index + 1,
           requests |-> [sent EXCEPT ![other] = Append(@, index)]]

\* assignTask(worker): the next unsent task, or shutdown when none is left
assignTask(w, taskList, index, boxes, status, sent) ==
  IF index >= Len(taskList)
  THEN [inbox |-> postMessage(boxes, status, w, TaskMessage(taskList, index)),
        nextTaskIndex |-> index, requests |-> sent]
  ELSE [inbox |-> postMessage(boxes, status, w, TaskMessage(taskList, index)),
        nextTaskIndex |-> index + 1,
        requests |-> [sent EXCEPT ![w] = Append(@, index)]]

OnMessage(w) ==
  /\ pc = "pool"
  /\ w \in DOMAIN chan
  /\ chan[w] # <<>>
  /\ Head(chan[w]).type \in {"result", "error"}
  /\ chan' = [chan EXCEPT ![w] = Tail(@)]
  /\ LET payload == Head(chan[w])
     IN IF payload.type = "error"
        THEN /\ settled' = finish("rejected")
             /\ poolError' = IF settled = "pending" THEN "analysisFailed" ELSE poolError
             /\ UNCHANGED <<acc, pendingResults, nextOutputIndex, completed,
                            nextTaskIndex, onResultCalls, requests, inbox>>
        ELSE LET r == onResult(acc, pendingResults, nextOutputIndex, scannableFiles, payload)
             IN /\ acc' = r.acc
                /\ pendingResults' = r.pendingResults
                /\ nextOutputIndex' = r.nextOutputIndex
                /\ onResultCalls' = onResultCalls + 1
                /\ completed' = completed + 1
                /\ UNCHANGED poolError
                /\ IF completed + 1 >= Len(tasks)
                   THEN /\ settled' = finish("resolved")
                        /\ UNCHANGED <<nextTaskIndex, requests, inbox>>
                   ELSE LET a == assignTask(w, tasks, nextTaskIndex, inbox, wstatus, requests)
                        IN /\ inbox' = a.inbox
                           /\ nextTaskIndex' = a.nextTaskIndex
                           /\ requests' = a.requests
                           /\ UNCHANGED settled
  /\ UNCHANGED ruleVars
  /\ UNCHANGED <<inputVars, pc, reportedCycles, fileSummaryCache, cursor, tasks,
                 summary, exitCode, crashes, replyCount, handled, analyses,
                 terminated, wstatus, wreported, running>>

OnError(w) ==
  /\ pc = "pool"
  /\ w \in DOMAIN chan
  /\ chan[w] # <<>>
  /\ Head(chan[w]).type = "threadError"
  /\ chan' = [chan EXCEPT ![w] = Tail(@)]
  /\ settled' = finish("rejected")
  /\ poolError' = IF settled = "pending" THEN "threadError" ELSE poolError
  /\ UNCHANGED ruleVars
  /\ UNCHANGED <<inputVars, pc, mainVars, pendingResults, nextOutputIndex, tasks,
                 nextTaskIndex, completed, terminated, wstatus, wreported, running,
                 inbox, historyVars>>

\* mutant: the exit of a worker never fails the pool
exitIsFatalNever(code, done, total) == FALSE

\* the condition of the 'exit' handler
exitIsFatal(code, done, total) == code # 0 /\ done < total

OnExit(w) ==
  /\ pc = "pool"
  /\ w \in DOMAIN chan
  /\ chan[w] # <<>>
  /\ Head(chan[w]).type = "exit"
  /\ chan' = [chan EXCEPT ![w] = Tail(@)]
  /\ LET fatal == exitIsFatal(Head(chan[w]).code, completed, Len(tasks))
     IN /\ settled' = IF fatal THEN finish("rejected") ELSE settled
        /\ poolError' = IF fatal /\ settled = "pending" THEN "workerExited" ELSE poolError
  /\ UNCHANGED ruleVars
  /\ UNCHANGED <<inputVars, pc, mainVars, pendingResults, nextOutputIndex, tasks,
                 nextTaskIndex, completed, terminated, wstatus, wreported, running,
                 inbox, historyVars>>

\* the .finally of the pool promise, once it has settled: terminate() is
\* called on every worker. It runs after the handler that settled the
\* promise has returned; handlers of events already delivered may run first.
TerminateAll ==
  /\ pc = "pool"
  /\ settled # "pending"
  /\ terminated = {}
  /\ terminated' = terminateAll(wstatus)
  /\ UNCHANGED ruleVars
  /\ UNCHANGED <<inputVars, pc, mainVars, pendingResults, nextOutputIndex, tasks,
                 nextTaskIndex, completed, settled, poolError, workerVars, historyVars>>

\* run() resumes after `await runWorkerPool(...)`: every terminate() promise
\* has resolved, i.e. every worker terminate() was called on has stopped and
\* its exit has been seen
PoolSettled ==
  /\ pc = "pool"
  /\ settled # "pending"
  /\ terminated # {}
  /\ \A w \in terminated : wstatus[w] = "exited" /\ chan[w] = <<>>
  /\ IF settled = "resolved"
     THEN LET r == flushReadyResults(acc, pendingResults, nextOutputIndex, scannableFiles)
          IN /\ acc' = r.acc
             /\ pendingResults' = r.pendingResults
             /\ nextOutputIndex' = r.nextOutputIndex
             /\ summary' = ScanSummary(r.acc, Len(scannableFiles))
             /\ pc' = "returned"
     ELSE /\ pc' = "threw"
          /\ UNCHANGED <<acc, pendingResults, nextOutputIndex, summary>>
  /\ UNCHANGED ruleVars
  /\ UNCHANGED <<inputVars, reportedCycles, fileSummaryCache, cursor, tasks, nextTaskIndex,
                 completed, settled, poolError, terminated, workerVars, exitCode,
                 historyVars>>

(* ---------------------------------------------------------------------- *)
(* The worker thread                                                       *)
(* ---------------------------------------------------------------------- *)
\* mutant: a failed analysis is swallowed without a reply
workerReplyOnlyOnSuccess(task, r) ==
  IF r.threw THEN <<>> ELSE <<ResultMessage(task, r)>>

\* the reply of the handler for an analyze request
workerReplyFor(task, r) ==
  IF r.threw THEN <<ErrorMessage(task)>> ELSE <<ResultMessage(task, r)>>

\* the thread of a worker starts: it runs the start-up of the worker module
\* (lines 11-24) and registers its message handler
WorkerOnline(w) ==
  /\ pc = "pool"
  /\ w \in DOMAIN wstatus
  /\ wstatus[w] = "starting"
  /\ wstatus' = [wstatus EXCEPT ![w] = "idle"]
  /\ UNCHANGED ruleVars
  /\ UNCHANGED <<inputVars, pc, mainVars, poolVars, wreported, running, inbox, chan,
                 historyVars>>

\* a thread that terminate() was called on stops, some time after the call:
\* its 'exit' carries code 1, or code 0 when the thread had not started
WorkerTerminated(w) ==
  /\ pc = "pool"
  /\ w \in terminated
  /\ wstatus[w] # "exited"
  /\ wstatus' = [wstatus EXCEPT ![w] = "exited"]
  /\ chan' = [chan EXCEPT ![w] =
                Append(@, ThreadEvent("exit", IF wstatus[w] = "starting" THEN 0 ELSE 1))]
  /\ inbox' = discard(wstatus', inbox, <<>>)
  /\ wreported' = discard(wstatus', wreported, {})
  /\ running' = discard(wstatus', running, NoTask)
  /\ UNCHANGED ruleVars
  /\ UNCHANGED <<inputVars, pc, mainVars, poolVars, historyVars>>

\* port.on('message'): the handler of the worker receives the next message:
\* a shutdown ends the thread (process.exit(0)); for an analyze request it
\* calls analyzeFile and waits for it
WorkerOnMessage(w) ==
  /\ pc = "pool"
  /\ w \in DOMAIN wstatus
  /\ wstatus[w] = "idle"
  /\ inbox[w] # <<>>
  /\ LET message == Head(inbox[w])
     IN IF message.type = "shutdown"
        THEN /\ wstatus' = [wstatus EXCEPT ![w] = "exited"]
             /\ chan' = [chan EXCEPT ![w] = Append(@, ThreadEvent("exit", 0))]
             /\ inbox' = discard(wstatus', inbox, <<>>)
             /\ wreported' = discard(wstatus', wreported, {})
             /\ running' = discard(wstatus', running, NoTask)
             /\ UNCHANGED analyses
        ELSE /\ wstatus' = [wstatus EXCEPT ![w] = "busy"]
             /\ running' = [running EXCEPT ![w] = [id |-> message.id,
                                                   filePath |-> message.filePath]]
             /\ analyses' = [analyses EXCEPT ![message.filePath] = @ + 1]
             /\ inbox' = [inbox EXCEPT ![w] = Tail(@)]
             /\ UNCHANGED <<chan, wreported>>
  /\ UNCHANGED ruleVars
  /\ UNCHANGED <<inputVars, pc, mainVars, poolVars, crashes, onResultCalls, requests,
                 replyCount, handled>>

\* the handler resumes after `await analyzeFile(...)` and posts its one
\* reply, the result or the error
WorkerReply(w) ==
  /\ pc = "pool"
  /\ w \in DOMAIN wstatus
  /\ wstatus[w] = "busy"
  /\ LET task == running[w]
     IN \E r \in {analyzeFile(task.filePath, Rules, wreported[w])} :
          \E posted \in {workerReplyFor(task, r)} :
            /\ chan' = [chan EXCEPT ![w] = @ \o posted]
            /\ replyCount' = [replyCount EXCEPT ![task.id] = @ + Len(posted)]
            /\ wreported' = [wreported EXCEPT ![w] = r.reported]
            /\ handled' = handled \cup {task.id}
  /\ wstatus' = [wstatus EXCEPT ![w] = "idle"]
  /\ running' = [running EXCEPT ![w] = NoTask]
  /\ UNCHANGED ruleVars
  /\ UNCHANGED <<inputVars, pc, mainVars, poolVars, inbox, crashes, onResultCalls,
                 requests, analyses>>

\* the sequence q with event e put after its first `position` elements
InsertAt(q, position, e) ==
  SubSeq(q, 1, position) \o <<e>> \o SubSeq(q, position + 1, Len(q))

\* an uncaught exception in the worker thread: 'error', then 'exit' with code 1.
\* The running thread can die at any time: in its start-up (lines 11-24), inside
\* analyzeFile, or later from what loaded code left behind (an unhandled
\* rejection, a timer). 'error' does not travel with the messages of the
\* port: the main thread may handle it before or after the replies the
\* thread had posted; 'exit' comes last.
WorkerCrash(w) ==
  /\ pc = "pool"
  /\ w \in DOMAIN wstatus
  /\ wstatus[w] \notin {"starting", "exited"}
  /\ crashes < MaxCrashes
  /\ crashes' = crashes + 1
  /\ wstatus' = [wstatus EXCEPT ![w] = "exited"]
  /\ \E position \in 0..Len(chan[w]) :
       chan' = [chan EXCEPT ![w] = InsertAt(@, position, ThreadEvent("threadError", 1))
                                     \o <<ThreadEvent("exit", 1)>>]
  /\ inbox' = discard(wstatus', inbox, <<>>)
  /\ wreported' = discard(wstatus', wreported, {})
  /\ running' = discard(wstatus', running, NoTask)
  /\ UNCHANGED ruleVars
  /\ UNCHANGED <<inputVars, pc, mainVars, poolVars, onResultCalls, replyCount, handled,
                 requests, analyses>>

\* the thread ends without an exception, by process.exit(code) in code
\* loaded by the worker (its start-up, a rule inside analyzeFile, a timer
\* left behind): only 'exit' with that code follows
WorkerExit(w, code) ==
  /\ pc = "pool"
  /\ w \in DOMAIN wstatus
  /\ wstatus[w] \notin {"starting", "exited"}
  /\ crashes < MaxCrashes
  /\ crashes' = crashes + 1
  /\ wstatus' = [wstatus EXCEPT ![w] = "exited"]
  /\ chan' = [chan EXCEPT ![w] = Append(@, ThreadEvent("exit", code))]
  /\ inbox' = discard(wstatus', inbox, <<>>)
  /\ wreported' = discard(wstatus', wreported, {})
  /\ running' = discard(wstatus', running, NoTask)
  /\ UNCHANGED ruleVars
  /\ UNCHANGED <<inputVars, pc, mainVars, poolVars, onResultCalls, replyCount, handled,
                 requests, analyses>>

(* ---------------------------------------------------------------------- *)
(* main: the exit code                                                     *)
(* ---------------------------------------------------------------------- *)
\* mutant: text mode fails the run on warnings as well
mainExitCodeOnWarnings(result, format) ==
  IF format = "json" THEN (IF result.filesWithErrors > 0 THEN 1 ELSE 0)
  ELSE IF result.scannedFiles > 0
       THEN (IF result.filesWithErrors > 0 \/ result.filesWithWarnings > 0 THEN 1 ELSE 0)
  ELSE 0

mainExitCode(result, format) ==
  IF format = "json" THEN (IF result.filesWithErrors > 0 THEN 1 ELSE 0)
  ELSE IF result.scannedFiles > 0 THEN (IF result.filesWithErrors > 0 THEN 1 ELSE 0)
  ELSE 0

MainExit ==
  /\ pc \in {"returned", "threw"}
  /\ exitCode = -1
  /\ exitCode' = IF pc = "threw" THEN 1 ELSE mainExitCode(summary, outputFormat)
  /\ UNCHANGED ruleVars
  /\ UNCHANGED <<inputVars, pc, acc, reportedCycles, fileSummaryCache, cursor, summary,
                 poolVars, workerVars, historyVars>>

\* the process ends by itself while main still awaits run(): the pool
\* promise is pending, every worker thread has ended and no event is left,
\* so nothing keeps the event loop alive. Nothing is printed and the exit
\* code is 0.
ProcessEnds ==
  /\ pc = "pool"
  /\ exitCode = -1
  /\ settled = "pending"
  /\ \A w \in DOMAIN wstatus : wstatus[w] = "exited" /\ chan[w] = <<>>
  /\ exitCode' = 0
  /\ UNCHANGED ruleVars
  /\ UNCHANGED <<inputVars, pc, acc, reportedCycles, fileSummaryCache, cursor, summary,
                 poolVars, workerVars, historyVars>>

Workers == 1..(MaxWorkers + 1)

Next ==
  \/ Run
  \/ ScanNextFile
  \/ \E w \in Workers : OnMessage(w)
  \/ \E w \in Workers : OnError(w)
  \/ \E w \in Workers : OnExit(w)
  \/ TerminateAll
  \/ PoolSettled
  \/ \E w \in Workers : WorkerOnline(w)
  \/ \E w \in Workers : WorkerTerminated(w)
  \/ \E w \in Workers : WorkerOnMessage(w)
  \/ \E w \in Workers : WorkerReply(w)
  \/ \E w \in Workers : WorkerCrash(w)
  \/ \E w \in Workers : \E code \in {0, 1} : WorkerExit(w, code)
  \/ MainExit
  \/ ProcessEnds

Spec == Init /\ [][Next]_vars

\* SpecLive: the scan with its scheduling, on inputs of ordinary files and of
\* files that cannot be read. The event loop of the main thread runs a handler
\* while an event is queued and resumes run() and main; every live worker
\* thread handles the messages posted to it. Nothing forces a worker to crash
\* or to exit.
InitLive ==
  /\ Init
  /\ \A k \in 1..Len(filePaths) : filePaths[k] \in {"p.ts", "u.ts"}
  /\ envWorkers \in {EnvUnset, [present |-> TRUE, isNaN |-> FALSE, halves |-> MaxWorkers + MaxWorkers]}
  /\ outputFormat = "json"

MainThread ==
  \/ Run
  \/ ScanNextFile
  \/ \E w \in Workers : OnMessage(w) \/ OnError(w) \/ OnExit(w)
  \/ TerminateAll
  \/ PoolSettled
  \/ MainExit
  \/ ProcessEnds

SpecLive ==
  /\ InitLive
  /\ [][Next]_vars
  /\ WF_vars(MainThread)
  /\ \A w \in Workers : /\ WF_vars(WorkerOnline(w)) /\ WF_vars(WorkerTerminated(w))
                        /\ WF_vars(WorkerOnMessage(w)) /\ WF_vars(WorkerReply(w))

TypeOK == pc \in {"start", "single", "pool", "returned", "threw", "rule"}

(* ---------------------------------------------------------------------- *)
(* SpecRule: one process running rules on files, one rule run per step     *)
(* ---------------------------------------------------------------------- *)
\* the files on which analyzeFile reaches the rule loop
RuleFiles ==
  {p \in AllPaths : checkPathExists(p) /\ ~isIgnored(p) /\ isScannableFile(p)
                    /\ ~IsDeclarationFile(p) /\ ~ReadFails(p) /\ ~ParseFails(p)}

\* no scan is running: the state of every variable of the scan pipeline
NoScan ==
  /\ filePaths = <<>>
  /\ envWorkers = EnvUnset
  /\ outputFormat = "json"
  /\ scannableFiles = <<>>
  /\ workerCount = 0
  /\ acc = EmptyAcc
  /\ reportedCycles = {}
  /\ fileSummaryCache = <<>>
  /\ cursor = 1
  /\ pendingResults = <<>>
  /\ nextOutputIndex = 1
  /\ tasks = <<>>
  /\ nextTaskIndex = 0
  /\ completed = 0
  /\ settled = "pending"
  /\ poolError = ""
  /\ terminated = {}
  /\ wstatus = <<>>
  /\ wreported = <<>>
  /\ running = <<>>
  /\ inbox = <<>>
  /\ chan = <<>>
  /\ summary = NoSummary
  /\ exitCode = -1
  /\ crashes = 0
  /\ onResultCalls = 0
  /\ replyCount = <<>>
  /\ handled = {}
  /\ requests = <<>>
  /\ analyses = [p \in AllPaths |-> 0]

InitRule ==
  /\ NoScan
  /\ pc = "rule"
  /\ ruleRuns = <<>>
  /\ call = NoCall

\* rule.run(context) of Rules[i] on `file`, in the process whose module-level
\* state is reportedCycles
RuleRun(file, i) ==
  /\ pc = "rule"
  /\ Len(ruleRuns) < MaxRuns
  /\ LET ran(r) ==
           /\ ruleRuns' = Append(ruleRuns, [file |-> file, rule |-> i, records |-> r.records])
           /\ reportedCycles' = r.reported
     IN ran(RunRule(Rules[i], file, reportedCycles))
  /\ UNCHANGED <<inputVars, pc, acc, fileSummaryCache, cursor, summary, exitCode,
                 poolVars, workerVars, historyVars, call>>

NextRule == \E file \in RuleFiles, i \in 1..Len(Rules) : RuleRun(file, i)

SpecRule == InitRule /\ [][NextRule]_vars

(* ---------------------------------------------------------------------- *)
(* SpecCount: resolveWorkerCount on a file count, an override and a CPU    *)
(* count                                                                   *)
(* ---------------------------------------------------------------------- *)
\* AUTO_CR_WORKERS: unset or empty, not a number, or a number from -1 on in
\* steps of a half
EnvValues ==
  {EnvUnset, [present |-> TRUE, isNaN |-> TRUE, halves |-> 0]} \cup
  {[present |-> TRUE, isNaN |-> FALSE, halves |-> h] : h \in (-2)..(MaxFiles + MaxFiles + 3)}

InitCount ==
  /\ NoScan
  /\ pc = "call"
  /\ ruleRuns = <<>>
  /\ \E totalFiles \in 0..MaxFiles, env \in EnvValues, cpus \in 0..MaxCpus :
       call = [fn |-> "resolveWorkerCount", args |-> <<totalFiles, env, cpus>>,
               done |-> FALSE, result |-> 0]

ResolveWorkerCount ==
  /\ pc = "call"
  /\ call.fn = "resolveWorkerCount"
  /\ ~call.done
  /\ call' = [call EXCEPT !.done = TRUE,
                          !.result = resolveWorkerCount(call.args[1], call.args[2], call.args[3])]
  /\ UNCHANGED <<inputVars, pc, mainVars, poolVars, workerVars, historyVars, ruleRuns>>

NextCount == ResolveWorkerCount

SpecCount == InitCount /\ [][NextCount]_vars

(* ---------------------------------------------------------------------- *)
(* SpecHot: analyzeModule's walk over a syntax tree, hot-path marking      *)
(* ---------------------------------------------------------------------- *)
HOT_CALLBACK_METHODS ==
  {"map", "forEach", "reduce", "reduceRight", "filter", "some", "every", "find",
   "findIndex", "flatMap"}

\* A node has a type, the property name of its callee when it is a call, and
\* at most one non-empty field, `field`, holding `child`; every other field of
\* the node is empty.
Nil == [type |-> "null"]

Child(node, field) == IF node.field = field THEN node.child ELSE Nil

isFunctionLike(candidate) ==
  candidate.type \in {"FunctionExpression", "ArrowFunctionExpression"}

isHotCallbackMethod(callExpression) == callExpression.method \in HOT_CALLBACK_METHODS

\* the walk of analyzeModule: the result is the set of depths of the nodes pushed to
\* hotPath.callExpressions, hotPath.newExpressions or hotPath.regExpLiterals
RECURSIVE analyzeWalk(_, _, _)
RECURSIVE walkFunctionBody(_, _, _)
RECURSIVE handleCallExpression(_, _, _)

walkFunctionBody(fn, inHot, depth) ==
  analyzeWalk(Child(fn, "params"), FALSE, depth + 1) \cup analyzeWalk(Child(fn, "body"), inHot, depth + 1)

walkArgument(callExpression, index, field, inHot, depth) ==
  IF isHotCallbackMethod(callExpression) /\ index = 0
       /\ isFunctionLike(Child(callExpression, field))
  THEN walkFunctionBody(Child(callExpression, field), TRUE, depth + 1)
  ELSE analyzeWalk(Child(callExpression, field), inHot, depth + 1)

handleCallExpression(callExpression, inHot, depth) ==
  (IF inHot THEN {depth} ELSE {})
    \cup analyzeWalk(Child(callExpression, "callee"), inHot, depth + 1)
    \cup walkArgument(callExpression, 0, "arg0", inHot, depth)
    \cup walkArgument(callExpression, 1, "arg1", inHot, depth)

analyzeWalk(node, inHot, depth) ==
  IF node.type = "null" THEN {}
  ELSE (IF node.type = "RegExpLiteral" /\ inHot THEN {depth} ELSE {}) \cup
       CASE node.type = "ForStatement" ->
              analyzeWalk(Child(node, "init"), inHot, depth + 1)
                \cup analyzeWalk(Child(node, "test"), TRUE, depth + 1)
                \cup analyzeWalk(Child(node, "update"), TRUE, depth + 1)
                \cup analyzeWalk(Child(node, "body"), TRUE, depth + 1)
         [] node.type \in {"WhileStatement", "DoWhileStatement"} ->
              analyzeWalk(Child(node, "test"), TRUE, depth + 1)
                \cup analyzeWalk(Child(node, "body"), TRUE, depth + 1)
         [] node.type \in {"ForInStatement", "ForOfStatement"} ->
              analyzeWalk(Child(node, "left"), inHot, depth + 1)
                \cup analyzeWalk(Child(node, "right"), inHot, depth + 1)
                \cup analyzeWalk(Child(node, "body"), TRUE, depth + 1)
         [] node.type = "CallExpression" -> handleCallExpression(node, inHot, depth)
         [] node.type = "NewExpression" ->
              (IF inHot THEN {depth} ELSE {})
                \cup analyzeWalk(Child(node, "callee"), inHot, depth + 1)
                \cup analyzeWalk(Child(node, "arg0"), inHot, depth + 1)
         [] node.type = "OptionalChainingExpression" ->
              analyzeWalk(Child(node, "base"), inHot, depth + 1)
         [] node.type \in {"FunctionDeclaration", "FunctionExpression",
                           "ArrowFunctionExpression"} ->
              walkFunctionBody(node, FALSE, depth)
         [] OTHER -> \* the generic traversal of every field of the node
              IF node.field = "" THEN {} ELSE analyzeWalk(node.child, inHot, depth + 1)

\* the nodes without children, and the shapes of a node around one child
Leaves ==
  {[type |-> t, method |-> "", field |-> "", child |-> Nil] :
     t \in {"CallExpression", "NewExpression", "RegExpLiteral", "Identifier"}}

Shapes ==
  {<<"ForStatement", "", "init">>, <<"ForStatement", "", "body">>,
   <<"WhileStatement", "", "body">>, <<"ForOfStatement", "", "right">>,
   <<"ForOfStatement", "", "body">>,
   <<"CallExpression", "map", "arg0">>, <<"CallExpression", "map", "arg1">>,
   <<"CallExpression", "then", "arg0">>, <<"CallExpression", "map", "callee">>,
   <<"NewExpression", "", "arg0">>,
   <<"FunctionDeclaration", "", "body">>, <<"FunctionExpression", "", "body">>,
   <<"ArrowFunctionExpression", "", "body">>, <<"MethodProperty", "", "body">>,
   <<"BlockStatement", "", "stmts">>}

RECURSIVE Trees(_)
Trees(depth) ==
  IF depth = 0 THEN Leaves
  ELSE LET smaller == Trees(depth - 1)
       IN smaller \cup {[type |-> shape[1], method |-> shape[2], field |-> shape[3],
                         child |-> c] : shape \in Shapes, c \in smaller}

InitHot ==
  /\ NoScan
  /\ pc = "call"
  /\ ruleRuns = <<>>
  /\ \E ast \in Trees(MaxDepth) :
       call = [fn |-> "analyzeModule", args |-> <<ast>>, done |-> FALSE, result |-> {}]

AnalyzeModule ==
  /\ pc = "call"
  /\ call.fn = "analyzeModule"
  /\ ~call.done
  /\ call' = [call EXCEPT !.done = TRUE, !.result = analyzeWalk(call.args[1], FALSE, 1)]
  /\ UNCHANGED <<inputVars, pc, mainVars, poolVars, workerVars, historyVars, ruleRuns>>

NextHot == AnalyzeModule

SpecHot == InitHot /\ [][NextHot]_vars

(* ---------------------------------------------------------------------- *)
(* SpecRegex: hasNestedUnboundedQuantifier on a pattern                    *)
(* ---------------------------------------------------------------------- *)
\* a pattern is a sequence of characters, indexed from 1
NoQuantifier == [found |-> FALSE, unbounded |-> FALSE, length |-> 0]
NoGroup == [found |-> FALSE, hasUnbounded |-> FALSE]

CharAt(pattern, index) ==
  IF index \in 1..Len(pattern) THEN pattern[index] ELSE "undefined"

Digits == {"0", "1", "2", "3", "4", "5", "6", "7", "8", "9"}

\* /^\d+(,\d*)?$/.test(body)
MatchesQuantifierBody(body) ==
  \E digits \in 1..Len(body) :
    /\ \A k \in 1..digits : body[k] \in Digits
    /\ \/ digits = Len(body)
       \/ /\ body[digits + 1] = ","
          /\ \A k \in (digits + 2)..Len(body) : body[k] \in Digits

\* the first index from `from` on that holds "}", or Len(pattern) + 1
RECURSIVE ClosingBrace(_, _)
ClosingBrace(pattern, from) ==
  IF from <= Len(pattern) /\ pattern[from] # "}" THEN ClosingBrace(pattern, from + 1)
  ELSE from

LazyLength(pattern, index) == IF CharAt(pattern, index) = "?" THEN 1 ELSE 0

readQuantifier(pattern, index) ==
  IF index > Len(pattern) THEN NoQuantifier
  ELSE IF pattern[index] \in {"*", "+"}
  THEN [found |-> TRUE, unbounded |-> TRUE, length |-> 1 + LazyLength(pattern, index + 1)]
  ELSE IF pattern[index] = "?"
  THEN [found |-> TRUE, unbounded |-> FALSE, length |-> 1 + LazyLength(pattern, index + 1)]
  ELSE IF pattern[index] # "{" THEN NoQuantifier
  ELSE LET end == ClosingBrace(pattern, index + 1)
           body == SubSeq(pattern, index + 1, end - 1)
       IN IF end > Len(pattern) THEN NoQuantifier
          ELSE IF ~MatchesQuantifierBody(body) THEN NoQuantifier
          ELSE [found |-> TRUE,
                unbounded |-> (\E k \in 1..Len(body) : body[k] = ",") /\ body[Len(body)] = ",",
                length |-> end - index + 1 + LazyLength(pattern, end + 1)]

\* stack[stack.length - 1].hasUnbounded = true, when there is a parent
markParent(stack, mark) ==
  IF stack # <<>> /\ mark THEN [stack EXCEPT ![Len(stack)].hasUnbounded = TRUE] ELSE stack

\* mutant: a group with an unbounded quantifier inside is reported whatever
\* quantifier follows it
RECURSIVE scanReportsAnyQuantifier(_, _, _, _, _)
scanReportsAnyQuantifier(pattern, index, stack, inCharClass, escaped) ==
  IF index > Len(pattern) THEN FALSE
  ELSE IF escaped THEN scanReportsAnyQuantifier(pattern, index + 1, stack, inCharClass, FALSE)
  ELSE IF pattern[index] = "\\"
  THEN scanReportsAnyQuantifier(pattern, index + 1, stack, inCharClass, TRUE)
  ELSE IF inCharClass
  THEN scanReportsAnyQuantifier(pattern, index + 1, stack, pattern[index] # "]", FALSE)
  ELSE IF pattern[index] = "["
  THEN scanReportsAnyQuantifier(pattern, index + 1, stack, TRUE, FALSE)
  ELSE IF pattern[index] = "("
  THEN scanReportsAnyQuantifier(pattern, index + 1,
                                Append(stack, [found |-> TRUE, hasUnbounded |-> FALSE]),
                                FALSE, FALSE)
  ELSE IF pattern[index] = ")"
  THEN LET current == IF stack = <<>> THEN NoGroup ELSE stack[Len(stack)]
           rest == IF stack = <<>> THEN <<>> ELSE SubSeq(stack, 1, Len(stack) - 1)
           quantifier == readQuantifier(pattern, index + 1)
       IN IF quantifier.found /\ current.hasUnbounded THEN TRUE
          ELSE scanReportsAnyQuantifier(
                 pattern, index + quantifier.length + 1,
                 markParent(markParent(rest, current.hasUnbounded), quantifier.unbounded),
                 FALSE, FALSE)
  ELSE LET quantifier == readQuantifier(pattern, index)
       IN IF quantifier.found
          THEN scanReportsAnyQuantifier(pattern, index + (quantifier.length - 1) + 1,
                                        markParent(stack, quantifier.unbounded), FALSE, FALSE)
          ELSE scanReportsAnyQuantifier(pattern, index + 1, stack, FALSE, FALSE)

\* the loop of hasNestedUnboundedQuantifier from `index` on
RECURSIVE scan(_, _, _, _, _)
scan(pattern, index, stack, inCharClass, escaped) ==
  IF index > Len(pattern) THEN FALSE
  ELSE IF escaped THEN scan(pattern, index + 1, stack, inCharClass, FALSE)
  ELSE IF pattern[index] = "\\" THEN scan(pattern, index + 1, stack, inCharClass, TRUE)
  ELSE IF inCharClass THEN scan(pattern, index + 1, stack, pattern[index] # "]", FALSE)
  ELSE IF pattern[index] = "[" THEN scan(pattern, index + 1, stack, TRUE, FALSE)
  ELSE IF pattern[index] = "("
  THEN scan(pattern, index + 1, Append(stack, [found |-> TRUE, hasUnbounded |-> FALSE]),
            FALSE, FALSE)
  ELSE IF pattern[index] = ")"
  THEN LET current == IF stack = <<>> THEN NoGroup ELSE stack[Len(stack)]
           rest == IF stack = <<>> THEN <<>> ELSE SubSeq(stack, 1, Len(stack) - 1)
           quantifier == readQuantifier(pattern, index + 1)
       IN IF quantifier.unbounded /\ current.hasUnbounded THEN TRUE
          ELSE scan(pattern, index + quantifier.length + 1,
                    markParent(markParent(rest, current.hasUnbounded), quantifier.unbounded),
                    FALSE, FALSE)
  ELSE LET quantifier == readQuantifier(pattern, index)
       IN IF quantifier.found
          THEN scan(pattern, index + (quantifier.length - 1) + 1,
                    markParent(stack, quantifier.unbounded), FALSE, FALSE)
          ELSE scan(pattern, index + 1, stack, FALSE, FALSE)

hasNestedUnboundedQuantifier(pattern) == scan(pattern, 1, <<>>, FALSE, FALSE)

\* the pieces the patterns of the model are put together from
Pieces ==
  {<<"(">>, <<")">>, <<"a", "+">>, <<"+">>, <<"?">>, <<"{", "1", ",", "3", "}">>,
   <<"{", "1", ",", "}">>, <<"\\">>, <<"[">>, <<"]">>}

RECURSIVE Patterns(_)
Patterns(n) ==
  IF n = 0 THEN {<<>>}
  ELSE LET shorter == Patterns(n - 1)
       IN shorter \cup {q \o piece : q \in shorter, piece \in Pieces}

InitRegex ==
  /\ NoScan
  /\ pc = "call"
  /\ ruleRuns = <<>>
  /\ \E pattern \in Patterns(MaxPieces) :
       call = [fn |-> "hasNestedUnboundedQuantifier", args |-> <<pattern>>,
               done |-> FALSE, result |-> FALSE]

HasNestedUnboundedQuantifier ==
  /\ pc = "call"
  /\ call.fn = "hasNestedUnboundedQuantifier"
  /\ ~call.done
  /\ call' = [call EXCEPT !.done = TRUE,
                          !.result = hasNestedUnboundedQuantifier(call.args[1])]
  /\ UNCHANGED <<inputVars, pc, mainVars, poolVars, workerVars, historyVars, ruleRuns>>

NextRegex == HasNestedUnboundedQuantifier

SpecRegex == InitRegex /\ [][NextRegex]_vars

(* ---------------------------------------------------------------------- *)
(* SpecLine: resolveLineFromByteOffset on a source text                    *)
(* ---------------------------------------------------------------------- *)
\* a source text is a sequence of UTF-16 code units; positions count from 0
\* as in the code, so lineOffsets[mid] of the code is lineOffsets[mid + 1] here
NewLine == 10

RECURSIVE lineOffsetsFrom(_, _)
lineOffsetsFrom(source, index) ==
  IF index >= Len(source) THEN <<>>
  ELSE (IF source[index + 1] = NewLine THEN <<index + 1>> ELSE <<>>)
         \o lineOffsetsFrom(source, index + 1)

createSourceIndex(source, moduleStart) ==
  [moduleStart |-> moduleStart, lineOffsets |-> <<0>> \o lineOffsetsFrom(source, 0)]

\* mutant: an exact match of a line start gives the index, not the line number
RECURSIVE resolveLineIndexOnMatch(_, _, _, _)
resolveLineIndexOnMatch(lineOffsets, position, low, high) ==
  IF low > high THEN high + 1
  ELSE LET mid == (low + high) \div 2
       IN IF lineOffsets[mid + 1] = position THEN mid
          ELSE IF lineOffsets[mid + 1] < position
          THEN resolveLineIndexOnMatch(lineOffsets, position, mid + 1, high)
          ELSE resolveLineIndexOnMatch(lineOffsets, position, low, mid - 1)

\* the binary search of resolveLine between low and high
RECURSIVE resolveLineBetween(_, _, _, _)
resolveLineBetween(lineOffsets, position, low, high) ==
  IF low > high THEN high + 1
  ELSE LET mid == (low + high) \div 2
       IN IF lineOffsets[mid + 1] = position THEN mid + 1
          ELSE IF lineOffsets[mid + 1] < position
          THEN resolveLineBetween(lineOffsets, position, mid + 1, high)
          ELSE resolveLineBetween(lineOffsets, position, low, mid - 1)

resolveLine(lineOffsets, position) ==
  resolveLineBetween(lineOffsets, position, 0, Len(lineOffsets) - 1)

readUtf8Character(source, index, code) ==
  IF code <= 127 THEN [bytes |-> 1, nextIndex |-> index + 1]
  ELSE IF code <= 2047 THEN [bytes |-> 2, nextIndex |-> index + 1]
  ELSE IF code >= 55296 /\ code <= 56319 /\ index + 1 < Len(source)
            /\ source[index + 2] >= 56320 /\ source[index + 2] <= 57343
       THEN [bytes |-> 4, nextIndex |-> index + 2]
  ELSE [bytes |-> 3, nextIndex |-> index + 1]

\* the loop of bytePosToCharIndex
RECURSIVE charIndexFrom(_, _, _, _)
charIndexFrom(source, target, index, byteOffset) ==
  IF index >= Len(source) THEN Len(source)
  ELSE LET character == readUtf8Character(source, index, source[index + 1])
       IN IF byteOffset + character.bytes > target THEN index
          ELSE charIndexFrom(source, target, character.nextIndex,
                             byteOffset + character.bytes)

bytePosToCharIndex(source, moduleStart, bytePos) ==
  LET target == Max(bytePos - moduleStart, 0)
  IN IF target = 0 THEN 0 ELSE charIndexFrom(source, target, 0, 0)

resolveLineFromByteOffset(source, index, byteOffset) ==
  resolveLine(index.lineOffsets, bytePosToCharIndex(source, index.moduleStart, byteOffset))

\* code units of the model: a, line feed, e-acute (2 bytes), a CJK character
\* (3 bytes), a high and a low surrogate
CodeUnits == {97, NewLine, 233, 20013, 55357, 56832}

\* the byte offsets looked at: from 0 to past the end of the text
LastOffset(source, moduleStart) == moduleStart + Len(source) + Len(source) + Len(source) + 1

InitLine ==
  /\ NoScan
  /\ pc = "call"
  /\ ruleRuns = <<>>
  /\ \E source \in SeqsUpTo(CodeUnits, MaxSource), moduleStart \in 0..MaxStart :
       call = [fn |-> "resolveLineFromByteOffset", args |-> <<source, moduleStart>>,
               done |-> FALSE, result |-> <<>>]

\* one call, for the byte offset Len(call.result): result[b + 1] is the line
\* resolved for byte offset b
ResolveLineFromByteOffset ==
  /\ pc = "call"
  /\ call.fn = "resolveLineFromByteOffset"
  /\ Len(call.result) <= LastOffset(call.args[1], call.args[2])
  /\ call' = [call EXCEPT
                !.done = TRUE,
                !.result = Append(@, resolveLineFromByteOffset(
                                       call.args[1],
                                       createSourceIndex(call.args[1], call.args[2]),
                                       Len(call.result)))]
  /\ UNCHANGED <<inputVars, pc, mainVars, poolVars, workerVars, historyVars, ruleRuns>>

NextLine == ResolveLineFromByteOffset

SpecLine == InitLine /\ [][NextLine]_vars

(* ---------------------------------------------------------------------- *)
(* SpecTry: the no-swallowed-errors rule on a module                       *)
(* ---------------------------------------------------------------------- *)
\* A value of the syntax tree: its type, the start of its span, and the
\* object-valued entries of Object.values(value) in their order. Strings,
\* numbers and span objects are pushed and popped without any effect and are
\* left out; null stands for an absent handler, finalizer or interpreter.
Node(type, values) == [type |-> type, start |-> 0, values |-> values]

NullValue == Node("null", <<>>)

ArrayOf(elements) == Node("Array", elements)

\* { type, span, ctxt, stmts }
BlockStatement(stmts) == Node("BlockStatement", <<ArrayOf(stmts)>>)

\* { type, span, param, body }
CatchClause(body) == Node("CatchClause", <<NullValue, body>>)

\* { type, span, block, handler, finalizer }
TryStatement(block, handler, finalizer) == Node("TryStatement", <<block, handler, finalizer>>)

\* { type, span, body, interpreter }
ModuleOf(body) == Node("Module", <<ArrayOf(body), NullValue>>)

\* the parser's spans: every value starts after the values written before it
RECURSIVE locate(_, _)
RECURSIVE locateAll(_, _, _, _)
locate(node, pos) ==
  IF node.type = "null" THEN [node |-> node, next |-> pos]
  ELSE LET located(kids) ==
             [node |-> [node EXCEPT !.start = pos, !.values = kids.values],
              next |-> kids.next]
       IN located(locateAll(node.values, 1, pos + 1, <<>>))

locateAll(values, i, pos, done) ==
  IF i > Len(values) THEN [values |-> done, next |-> pos]
  ELSE LET after(r) == locateAll(values, i + 1, r.next, Append(done, r.node))
       IN after(locate(values[i], pos))

RECURSIVE hasExecutableStatements(_)
isExecutableStatement(statement) ==
  CASE statement.type = "EmptyStatement" -> FALSE
    [] statement.type = "BlockStatement" -> hasExecutableStatements(statement.values[1].values)
    [] OTHER -> TRUE

hasExecutableStatements(statements) ==
  \E k \in 1..Len(statements) : isExecutableStatement(statements[k])

\* the callback of the rule on one try statement: the violations reported so
\* far, with the one for this statement when neither its catch block nor its
\* finally block holds an executable statement
reportSwallowedError(reported, tryStatement) ==
  LET handler == tryStatement.values[2]
      catchBlock == IF handler.type = "null" THEN NullValue ELSE handler.values[2]
      finallyBlock == tryStatement.values[3]
      catchHasExecutable ==
        IF catchBlock.type = "null" THEN FALSE
        ELSE hasExecutableStatements(catchBlock.values[1].values)
      finallyHasExecutable ==
        IF finallyBlock.type = "null" THEN FALSE
        ELSE hasExecutableStatements(finallyBlock.values[1].values)
      reportSpan == IF catchBlock.type # "null" THEN catchBlock.start
                    ELSE IF finallyBlock.type # "null" THEN finallyBlock.start
                    ELSE tryStatement.start
  IN IF catchHasExecutable \/ finallyHasExecutable THEN reported
     ELSE Append(reported, [span |-> reportSpan, statement |-> tryStatement.start])

\* the loop of visitTryStatements: queue.pop(), the callback on a try
\* statement, then queue.push of every value of the popped object
RECURSIVE visitTryStatements(_, _)
visitTryStatements(queue, reported) ==
  IF queue = <<>> THEN reported
  ELSE LET current == queue[Len(queue)]
           rest == SubSeq(queue, 1, Len(queue) - 1)
       IN IF current.type = "null" THEN visitTryStatements(rest, reported)
          ELSE visitTryStatements(
                 rest \o current.values,
                 IF current.type = "TryStatement"
                 THEN reportSwallowedError(reported, current)
                 ELSE reported)

\* the violations of the rule on a module, in the order it reports them
noSwallowedErrors(ast) == visitTryStatements(<<ast>>, <<>>)

LeafStatements == {Node("ExpressionStatement", <<>>), Node("EmptyStatement", <<>>)}

\* catch {} and catch { f() }; finally { { ; } } and finally { f() }
Handlers ==
  {NullValue, CatchClause(BlockStatement(<<>>)),
   CatchClause(BlockStatement(<<Node("ExpressionStatement", <<>>)>>))}

Finalizers ==
  {NullValue, BlockStatement(<<BlockStatement(<<Node("EmptyStatement", <<>>)>>)>>),
   BlockStatement(<<Node("ExpressionStatement", <<>>)>>)}

\* try statements nested up to `depth` deep through their blocks of at most
\* one statement
RECURSIVE TryStatements(_)
TryStatements(depth) ==
  IF depth = 0 THEN {}
  ELSE LET inner == LeafStatements \cup TryStatements(depth - 1)
           blocks == {BlockStatement(<<>>)} \cup {BlockStatement(<<s>>) : s \in inner}
           clauses == {c \in Handlers \X Finalizers : c[1] # NullValue \/ c[2] # NullValue}
       IN {TryStatement(b, c[1], c[2]) : b \in blocks, c \in clauses}

\* the modules of at most `length` statements
Modules(length) ==
  {locate(ModuleOf(body), 0).node :
     body \in SeqsUpTo(LeafStatements \cup TryStatements(MaxNesting), length)}

InitTry ==
  /\ NoScan
  /\ pc = "call"
  /\ ruleRuns = <<>>
  /\ \E ast \in Modules(MaxStmts) :
       call = [fn |-> "noSwallowedErrors", args |-> <<ast>>, done |-> FALSE, result |-> <<>>]

NoSwallowedErrors ==
  /\ pc = "call"
  /\ call.fn = "noSwallowedErrors"
  /\ ~call.done
  /\ call' = [call EXCEPT !.done = TRUE, !.result = noSwallowedErrors(call.args[1])]
  /\ UNCHANGED <<inputVars, pc, mainVars, poolVars, workerVars, historyVars, ruleRuns>>

NextTry == NoSwallowedErrors

SpecTry == InitTry /\ [][NextTry]_vars

(* ---------------------------------------------------------------------- *)
(* SpecReport: reportViolation, of createRuleHelpers and of analyzeFile    *)
(* ---------------------------------------------------------------------- *)
\* an optional span and an optional line; a line may be a number that is not
\* finite (NaN)
NoSpan == [present |-> FALSE, start |-> 0]
NoLine == [present |-> FALSE, finite |-> FALSE, value |-> 0]

\* both helpers normalise alike: a string carries the span argument only, an
\* object carries its own span (or else the span argument) and its line
normalizeViolationInput(input, spanArg) ==
  IF input.isString THEN [span |-> spanArg, line |-> NoLine]
  ELSE [span |-> IF input.span.present THEN input.span ELSE spanArg,
        line |-> input.line]

\* one call on the rule reporter
ReporterCall(channel, span, line) == [channel |-> channel, span |-> span, line |-> line]

\* reportViolation of createRuleHelpers (auto-cr-rules)
reportViolation(reporter, input, spanArg) ==
  LET normalized == normalizeViolationInput(input, spanArg)
  IN IF reporter.hasRecord THEN ReporterCall("record", normalized.span, normalized.line)
     ELSE IF normalized.span.present THEN ReporterCall("errorAtSpan", normalized.span, NoLine)
     ELSE IF normalized.line.present THEN ReporterCall("errorAtLine", NoSpan, normalized.line)
     ELSE ReporterCall("error", NoSpan, NoLine)

resolveLineForViolation(source, sourceIndex, violation) ==
  IF violation.line.present /\ violation.line.finite THEN violation.line
  ELSE IF ~violation.span.present THEN NoLine
  ELSE [present |-> TRUE, finite |-> TRUE,
        value |-> resolveLineFromByteOffset(source, sourceIndex, violation.span.start)]

\* helpers.reportViolation as analyzeFile hands it to every rule
analyzeFileReportViolation(reporterWithRecord, source, input, span) ==
  LET normalized == normalizeViolationInput(input, span)
      resolvedLine == resolveLineForViolation(source, createSourceIndex(source, 0), normalized)
  IN IF reporterWithRecord.hasRecord
     THEN ReporterCall("record", normalized.span, resolvedLine)
     ELSE IF resolvedLine.present THEN ReporterCall("errorAtLine", NoSpan, resolvedLine)
     ELSE IF normalized.span.present THEN ReporterCall("errorAtSpan", normalized.span, NoLine)
     ELSE ReporterCall("error", NoSpan, NoLine)

\* the text "a", line feed, "a"
ReportedSource == <<97, NewLine, 97>>

Spans == {NoSpan} \cup {[present |-> TRUE, start |-> b] : b \in 0..MaxSource}

Lines ==
  {NoLine, [present |-> TRUE, finite |-> FALSE, value |-> 0]} \cup
  {[present |-> TRUE, finite |-> TRUE, value |-> n] : n \in 1..MaxSource}

ViolationInputs ==
  {[isString |-> TRUE, span |-> NoSpan, line |-> NoLine]} \cup
  {[isString |-> FALSE, span |-> s, line |-> l] : s \in Spans, l \in Lines}

InitReport ==
  /\ NoScan
  /\ pc = "call"
  /\ ruleRuns = <<>>
  /\ \E helper \in {"createRuleHelpers", "analyzeFile"}, hasRecord \in BOOLEAN,
        input \in ViolationInputs, spanArg \in Spans :
       call = [fn |-> "reportViolation",
               args |-> <<helper, [hasRecord |-> hasRecord], input, spanArg>>,
               done |-> FALSE, result |-> ReporterCall("", NoSpan, NoLine)]

ReportViolation ==
  /\ pc = "call"
  /\ call.fn = "reportViolation"
  /\ ~call.done
  /\ call' = [call EXCEPT
                !.done = TRUE,
                !.result = IF call.args[1] = "createRuleHelpers"
                           THEN reportViolation(call.args[2], call.args[3], call.args[4])
                           ELSE analyzeFileReportViolation(call.args[2], ReportedSource,
                                                           call.args[3], call.args[4])]
  /\ UNCHANGED <<inputVars, pc, mainVars, poolVars, workerVars, historyVars, ruleRuns>>

NextReport == ReportViolation

SpecReport == InitReport /\ [][NextReport]_vars

(* ---------------------------------------------------------------------- *)
(* SpecGraph: findPathToOrigin on an import graph, one step of walk at a   *)
(* time                                                                    *)
(* ---------------------------------------------------------------------- *)
\* the lists of at most n distinct modules out of S: what getResolvedImports
\* returns is Array.from of a Set
DistinctSeqs(S, n) ==
  {q \in SeqsUpTo(S, n) : \A i, j \in 1..Len(q) : i # j => q[i] # q[j]}

\* The project a search runs on, i.e. what getResolvedImports answers:
\* a table of the imports of the modules 0 .. n-1; or a chain
\* 0 -> 1 -> ... -> n in which module 0 also imports module k, before or
\* after its import of module 1; or a tree of n modules in which module
\* `file` imports the modules branch * file + 1 .. branch * file + branch,
\* as far as they exist
TableProject(table) ==
  [kind |-> "table", table |-> table, n |-> 0, k |-> 0, first |-> FALSE, branch |-> 0]
ChainProject(n, k, first) ==
  [kind |-> "chain", table |-> <<>>, n |-> n, k |-> k, first |-> first, branch |-> 0]
TreeProject(n, branch) ==
  [kind |-> "tree", table |-> <<>>, n |-> n, k |-> 0, first |-> FALSE, branch |-> branch]

\* getResolvedImports(file, root, resolver) in a project
resolvedImportsIn(project, file) ==
  CASE project.kind = "table" -> project.table[file]
    [] project.kind = "chain" ->
         IF file = 0 THEN (IF project.first THEN <<project.k, 1>> ELSE <<1, project.k>>)
         ELSE IF file < project.n THEN <<file + 1>>
         ELSE <<>>
    [] project.kind = "tree" ->
         [j \in 1..(IF project.branch * file + 1 >= project.n THEN 0
                    ELSE IF project.branch * file + project.branch < project.n
                         THEN project.branch
                    ELSE project.n - 1 - project.branch * file)
            |-> project.branch * file + j]

\* the modules of a project
ModulesOf(project) ==
  CASE project.kind = "table" -> DOMAIN project.table
    [] project.kind = "chain" -> 0..project.n
    [] project.kind = "tree" -> 0..(project.n - 1)

\* A search in progress. frames is the call stack of walk, innermost last:
\* each frame holds its module, its depth, its neighbors and the position of
\* the for loop. calling is the invocation of walk about to start, returned
\* the value a finished invocation hands to its caller (<<>> stands for null).
NoInvocation == [active |-> FALSE, current |-> 0, depth |-> 0]
NoReturn == [active |-> FALSE, path |-> <<>>]

StartSearch(start) ==
  [frames |-> <<>>,
   calling |-> [active |-> TRUE, current |-> start, depth |-> 0],
   returned |-> NoReturn,
   nodesVisited |-> 0, visiting |-> {}, deadEnds |-> {},
   expanded |-> 0, deepest |-> 0,
   done |-> FALSE, result |-> <<>>]

Return(s, path) ==
  [s EXCEPT !.calling = NoInvocation, !.returned = [active |-> TRUE, path |-> path]]

\* mutant: no limit on the depth of the search
walkEnterAnyDepth(s, origin, project) ==
  LET current == s.calling.current
      depth == s.calling.depth
  IN IF current = origin THEN Return(s, <<origin>>)
     ELSE IF current \in s.deadEnds THEN Return(s, <<>>)
     ELSE IF current \in s.visiting THEN Return(s, <<>>)
     ELSE IF s.nodesVisited + 1 > MAX_GRAPH_NODES
          THEN Return([s EXCEPT !.nodesVisited = @ + 1], <<>>)
     ELSE [s EXCEPT !.nodesVisited = @ + 1,
                    !.calling = NoInvocation,
                    !.visiting = @ \cup {current},
                    !.expanded = @ + 1,
                    !.deepest = IF depth > @ THEN depth ELSE @,
                    !.frames = Append(@, [current |-> current, depth |-> depth,
                                          neighbors |-> resolvedImportsIn(project, current),
                                          next |-> 1])]

\* walk(current, depth) from its first line to the start of its for loop
walkEnter(s, origin, project) ==
  LET current == s.calling.current
      depth == s.calling.depth
  IN IF depth > MAX_GRAPH_DEPTH THEN Return(s, <<>>)
     ELSE IF current = origin THEN Return(s, <<origin>>)
     ELSE IF current \in s.deadEnds THEN Return(s, <<>>)
     ELSE IF current \in s.visiting THEN Return(s, <<>>)
     ELSE IF s.nodesVisited + 1 > MAX_GRAPH_NODES
          THEN Return([s EXCEPT !.nodesVisited = @ + 1], <<>>)
     ELSE [s EXCEPT !.nodesVisited = @ + 1,
                    !.calling = NoInvocation,
                    !.visiting = @ \cup {current},
                    !.expanded = @ + 1,
                    !.deepest = IF depth > @ THEN depth ELSE @,
                    !.frames = Append(@, [current |-> current, depth |-> depth,
                                          neighbors |-> resolvedImportsIn(project, current),
                                          next |-> 1])]

\* the head of the for loop of the innermost frame: the call for the next
\* neighbor, or the end of walk for a module none of whose neighbors led to
\* origin
walkLoop(s) ==
  LET frame == s.frames[Len(s.frames)]
  IN IF frame.next > Len(frame.neighbors)
     THEN Return([s EXCEPT !.frames = SubSeq(@, 1, Len(@) - 1),
                           !.visiting = @ \ {frame.current},
                           !.deadEnds = @ \cup {frame.current}],
                 <<>>)
     ELSE [s EXCEPT !.frames[Len(s.frames)].next = @ + 1,
                    !.calling = [active |-> TRUE, current |-> frame.neighbors[frame.next],
                                 depth |-> frame.depth + 1]]

\* mutant: a path found below a module is handed on without the module
walkResumeOmitsCurrent(s) ==
  IF s.frames = <<>>
  THEN [s EXCEPT !.done = TRUE, !.result = s.returned.path, !.returned = NoReturn]
  ELSE IF s.returned.path # <<>>
       THEN Return([s EXCEPT !.frames = SubSeq(@, 1, Len(@) - 1),
                             !.visiting = @ \ {s.frames[Len(s.frames)].current}],
                   s.returned.path)
  ELSE [s EXCEPT !.returned = NoReturn]

\* the return of an invocation: to findPathToOrigin, whose result it is, or
\* into the for loop of the caller
walkResume(s) ==
  IF s.frames = <<>>
  THEN [s EXCEPT !.done = TRUE, !.result = s.returned.path, !.returned = NoReturn]
  ELSE IF s.returned.path # <<>>
       THEN Return([s EXCEPT !.frames = SubSeq(@, 1, Len(@) - 1),
                             !.visiting = @ \ {s.frames[Len(s.frames)].current}],
                   <<s.frames[Len(s.frames)].current>> \o s.returned.path)
  ELSE [s EXCEPT !.returned = NoReturn]

walkStep(s, origin, project) ==
  IF s.calling.active THEN walkEnter(s, origin, project)
  ELSE IF s.returned.active THEN walkResume(s)
  ELSE walkLoop(s)

\* the searches of the model: start, origin and project
GraphInputs(modules, imports, beyond, branch) ==
  {[start |-> 0, origin |-> origin, project |-> TableProject(table)] :
     origin \in 0..1, table \in [0..(modules - 1) -> DistinctSeqs(0..(modules - 1), imports)]}
  \cup
  UNION {{[start |-> 0, origin |-> n, project |-> ChainProject(n, k, first)] :
            k \in (2..(2 + beyond)) \cup ((n - beyond)..n), first \in BOOLEAN} :
         n \in (MAX_GRAPH_DEPTH - 1)..(MAX_GRAPH_DEPTH + beyond)}
  \cup
  {[start |-> 0, origin |-> n - last, project |-> TreeProject(n, branch)] :
     n \in MAX_GRAPH_NODES..(MAX_GRAPH_NODES + beyond), last \in 0..1}

InitGraph ==
  /\ NoScan
  /\ pc = "call"
  /\ ruleRuns = <<>>
  /\ \E input \in GraphInputs(MaxModules, MaxImports, MaxBeyond, MaxBranch) :
       call = [fn |-> "findPathToOrigin",
               args |-> <<input.start, input.origin, input.project>>,
               done |-> FALSE, result |-> StartSearch(input.start)]

\* one step of the search
WalkStep ==
  /\ pc = "call"
  /\ call.fn = "findPathToOrigin"
  /\ ~call.done
  /\ \E s \in {walkStep(call.result, call.args[2], call.args[3])} :
       call' = [call EXCEPT !.done = s.done, !.result = s]
  /\ UNCHANGED <<inputVars, pc, mainVars, poolVars, workerVars, historyVars, ruleRuns>>

NextGraph == WalkStep

SpecGraph == InitGraph /\ [][NextGraph]_vars

\* the search is synchronous code: a step that can be taken is taken
SpecGraphLive == SpecGraph /\ WF_vars(NextGraph)

(* ---------------------------------------------------------------------- *)
(* SpecKey: buildCycleKey on one cycle entered at two of its files          *)
(* ---------------------------------------------------------------------- *)
\* the cycle the rule builds for an origin: [origin, ...pathToOrigin], where
\* the path ends at origin again
ClosedCycle(files) == files \o <<Head(files)>>

\* the same cycle entered `shift` files later
RotateCycle(files, shift) ==
  SubSeq(files, shift + 1, Len(files)) \o SubSeq(files, 1, shift)

\* the cycles of at most n distinct files, each with a second entry point
CycleInputs(n) ==
  UNION {{[files |-> files, shift |-> shift] : shift \in 0..(Len(files) - 1)} :
         files \in DistinctSeqs(AllPaths, n) \ {<<>>}}

InitKey ==
  /\ NoScan
  /\ pc = "call"
  /\ ruleRuns = <<>>
  /\ \E input \in CycleInputs(MaxCycle) :
       call = [fn |-> "buildCycleKey",
               args |-> <<ClosedCycle(input.files),
                          ClosedCycle(RotateCycle(input.files, input.shift))>>,
               done |-> FALSE, result |-> <<>>]

\* the rule computes the key of the cycle from either origin
BuildCycleKey ==
  /\ pc = "call"
  /\ call.fn = "buildCycleKey"
  /\ ~call.done
  /\ call' = [call EXCEPT !.done = TRUE,
                          !.result = <<buildCycleKey(call.args[1]),
                                       buildCycleKey(call.args[2])>>]
  /\ UNCHANGED <<inputVars, pc, mainVars, poolVars, workerVars, historyVars, ruleRuns>>

NextKey == BuildCycleKey

SpecKey == InitKey /\ [][NextKey]_vars

(* ---------------------------------------------------------------------- *)
(* Properties                                                              *)
(* ---------------------------------------------------------------------- *)
IsCycleViolation(v) == v.ruleName = "no-circular-dependencies"

\* the cycle violations of a list of file results, as <<file position, violation position>>
CyclePositions(files) ==
  UNION { { <<i, m>> : m \in {n \in 1..Len(files[i].violations) :
                                 IsCycleViolation(files[i].violations[n])} } :
          i \in 1..Len(files) }

CycleCount(file) ==
  Cardinality({m \in 1..Len(file.violations) : IsCycleViolation(file.violations[m])})

FilePathsOf(files) == [k \in 1..Len(files) |-> files[k].filePath]

\* the single-threaded loop of run() over a whole file list, from a fresh process
RECURSIVE SingleThreadRun(_, _, _, _, _)
SingleThreadRun(files, i, A, cache, reported) ==
  IF i > Len(files) THEN [threw |-> FALSE, acc |-> A]
  ELSE LET next(r) ==
             IF r.threw THEN [threw |-> TRUE, acc |-> A]
             ELSE SingleThreadRun(files, i + 1, r.acc, r.cache, r.reported)
       IN next(SingleStep(A, cache, reported, files[i]))

SingleThreadSummary(files) ==
  ScanSummary(SingleThreadRun(files, 1, EmptyAcc, <<>>, {}).acc, Len(files))

\* C1: the summary returned by a parallel scan (worker count > 1) is identical
\* to the summary the single-threaded path produces on the same file list.
C1_ParallelSummaryEqualsSingle ==
  (pc = "returned" /\ workerCount > 1) => summary = SingleThreadSummary(scannableFiles)

\* C2: in a parallel scan the k-th file result accumulated so far is always the
\* result of the k-th path of the filtered input list, whatever the completion
\* order; results that completed early wait in pendingResults.
C2_FilesInInputOrder ==
  workerCount > 1 =>
    /\ Len(acc.fileSummaries) = nextOutputIndex - 1
    /\ Len(acc.fileSummaries) <= Len(scannableFiles)
    /\ \A k \in 1..Len(acc.fileSummaries) :
         /\ acc.fileSummaries[k].filePath = scannableFiles[k]
         /\ \A m \in 1..Len(acc.fileSummaries[k].violations) :
              IsCycleViolation(acc.fileSummaries[k].violations[m])
                => Head(acc.fileSummaries[k].violations[m].code) = scannableFiles[k]
    /\ pc = "returned" => summary.files = acc.fileSummaries

\* witness of C2: a later file completed before an earlier one and is held back
\* while earlier results have already been appended
C2_OutOfOrderCompletion ==
  /\ workerCount > 1
  /\ Len(acc.fileSummaries) >= 1
  /\ \E k \in DOMAIN pendingResults : k > nextOutputIndex

\* C3: once the pool promise has been rejected by a fatal worker error, no
\* later step hands a result to onResult or adds a file to the accumulators.
C3_ResultsDiscardedAfterFatal ==
  [][settled = "rejected" =>
       (onResultCalls' = onResultCalls /\ acc'.fileSummaries = acc.fileSummaries)]_vars

\* C4: in a returned summary no two no-circular-dependencies violations carry
\* the same canonical cycle key.
C4_CycleKeysUnique ==
  pc = "returned" =>
    \A x \in CyclePositions(summary.files), y \in CyclePositions(summary.files) :
      x # y => buildCycleKey(summary.files[x[1]].violations[x[2]].code)
               # buildCycleKey(summary.files[y[1]].violations[y[2]].code)

\* C5: in one process, two runs of the same rule on the same file produce the
\* same list of violations.
C5_RuleRunsRepeatable ==
  \A i \in 1..Len(ruleRuns), j \in 1..Len(ruleRuns) :
    (ruleRuns[i].file = ruleRuns[j].file /\ ruleRuns[i].rule = ruleRuns[j].rule)
      => ruleRuns[i].records = ruleRuns[j].records

\* C6 (as stated): scanning [a.ts, b.ts], which import each other, gives each
\* of the two files at least one violation of the cycle rule.
C6_BothFilesFlagged ==
  (pc = "returned" /\ scannableFiles = <<"a.ts", "b.ts">>) =>
    \A k \in 1..2 : CycleCount(summary.files[k]) >= 1

\* C6 (amended): scanning [a.ts, b.ts], the first file a.ts receives exactly one
\* violation for the a/b cycle; b.ts receives one only in a parallel scan, where
\* it is analysed by another worker, and none in a single-threaded scan.
C6_FirstFileFlagged ==
  (pc = "returned" /\ scannableFiles = <<"a.ts", "b.ts">>) =>
    /\ CycleCount(summary.files[1]) = 1
    /\ \A m \in 1..Len(summary.files[1].violations) :
         IsCycleViolation(summary.files[1].violations[m])
           => summary.files[1].violations[m].code = <<"a.ts", "b.ts", "a.ts">>
    /\ CycleCount(summary.files[2]) = (IF workerCount > 1 THEN 1 ELSE 0)

\* witness of C6: a single-threaded scan of [a.ts, b.ts] has returned
C6_SingleThreadedPairScanned ==
  /\ pc = "returned"
  /\ scannableFiles = <<"a.ts", "b.ts">>
  /\ workerCount <= 1
  /\ CycleCount(summary.files[1]) = 1

\* the input paths that exist, are not ignored, have a scannable extension and
\* are no declaration files, every occurrence kept
ScannableInput(paths) ==
  SelectSeq(paths, LAMBDA p : checkPathExists(p) /\ ~isIgnored(p)
                              /\ isScannableFile(p) /\ ~IsDeclarationFile(p))

\* C7 (as stated): summary.files lists each scannable, non-ignored, existing
\* input path once, at the position of its first occurrence.
C7_FilesDeduplicated ==
  pc = "returned" => FilePathsOf(summary.files) = Dedupe(ScannableInput(filePaths), {})

\* C7 (amended): summary.files has one entry for every occurrence of a
\* scannable, non-ignored, existing input path, in input order; the entries of
\* a repeated path are equal.
C7_FilesKeepEveryOccurrence ==
  pc = "returned" =>
    /\ FilePathsOf(summary.files) = ScannableInput(filePaths)
    /\ summary.scannedFiles = Len(summary.files)
    /\ \A i \in 1..Len(summary.files), j \in 1..Len(summary.files) :
         summary.files[i].filePath = summary.files[j].filePath
           => summary.files[i] = summary.files[j]

\* witness of C7: a returned summary lists a repeated path twice, next to
\* inputs that were filtered out
C7_RepeatedPathScanned ==
  /\ pc = "returned"
  /\ \E i \in 1..Len(summary.files), j \in 1..Len(summary.files) :
       i < j /\ summary.files[i].filePath = summary.files[j].filePath
  /\ Len(summary.files) < Len(filePaths)

\* an analyze request reached the handler of a worker (in a parallel scan
\* analyzeFile is called once per request, on the file of the request)
Received(id) == analyses[tasks[id + 1]] > 0

\* the handler of some worker is inside analyzeFile for the request
InAnalysis(id) == \E w \in DOMAIN running : running[w].id = id

\* C8 as stated: every analyze request a worker has received, and whose
\* handler is no longer at work, has exactly one reply: never none, never two.
C8_EveryReceivedRequestAnswered ==
  \A id \in DOMAIN replyCount :
    (Received(id) /\ ~InAnalysis(id)) => replyCount[id] = 1

\* C8, amended: every analyze request has at most one reply, exactly one
\* once the worker's handler for it has run to its end, and each reply
\* carries the id and the path of its request; a received request is left
\* without a reply only when the thread of its worker stopped while the
\* handler was inside analyzeFile.
C8_OneReplyPerRequest ==
  /\ \A id \in DOMAIN replyCount :
       /\ replyCount[id] <= 1
       /\ id \in handled => replyCount[id] = 1
       /\ (Received(id) /\ ~InAnalysis(id) /\ replyCount[id] = 0) =>
            \E w \in DOMAIN requests :
              /\ \E i \in 1..Len(requests[w]) : requests[w][i] = id
              /\ wstatus[w] = "exited"
  /\ \A w \in DOMAIN chan : \A n \in 1..Len(chan[w]) :
       chan[w][n].type \in {"result", "error"}
         => /\ chan[w][n].id \in handled
            /\ chan[w][n].filePath = tasks[chan[w][n].id + 1]

\* witness of C8: one request was answered, and another was received by a
\* worker whose thread stopped inside analyzeFile, before any reply
C8_AnsweredAndCutShort ==
  /\ \E id \in DOMAIN replyCount : id \in handled /\ replyCount[id] = 1
  /\ \E id \in DOMAIN replyCount :
       Received(id) /\ ~InAnalysis(id) /\ replyCount[id] = 0

\* a worker has answered a request with an error and another request with
\* a result
C8_BothKindsOfReply ==
  /\ \E w \in DOMAIN chan : \E n \in 1..Len(chan[w]) : chan[w][n].type = "error"
  /\ \E w \in DOMAIN chan : \E n \in 1..Len(chan[w]) : chan[w][n].type = "result"

\* C9 (as stated): for every file of the summary, errorViolations is the number
\* of error-severity entries of its violations list.
C9_ErrorCountMatchesViolations ==
  pc = "returned" =>
    \A k \in 1..Len(summary.files) :
      summary.files[k].errorViolations = CountSeverity(summary.files[k].violations, "error")

\* C9 (amended): for every file of the summary that was parsed, errorViolations
\* is the number of error-severity entries of its violations list; for a file
\* whose parse failed, errorViolations is 1 and the violations list is empty.
C9_ErrorCountUnlessParseFailure ==
  pc = "returned" =>
    \A k \in 1..Len(summary.files) :
      IF ParseFails(summary.files[k].filePath)
      THEN /\ summary.files[k].errorViolations = 1
           /\ summary.files[k].violations = <<>>
      ELSE summary.files[k].errorViolations
             = CountSeverity(summary.files[k].violations, "error")

\* witness of C9: a summary with a parsed file that has error violations and a
\* file whose parse failed
C9_ParsedAndUnparsedFiles ==
  /\ pc = "returned"
  /\ \E k \in 1..Len(summary.files) :
       ~ParseFails(summary.files[k].filePath) /\ summary.files[k].errorViolations > 0
  /\ \E k \in 1..Len(summary.files) : ParseFails(summary.files[k].filePath)

\* C10: the process exits with 0 or 1, and with 1 exactly when run() failed
\* with a fatal error or the summary has files with errors, in both formats.
C10_ExitCode ==
  exitCode # -1 =>
    /\ exitCode \in {0, 1}
    /\ exitCode = 1 <=> (pc = "threw" \/ (pc = "returned" /\ summary.filesWithErrors > 0))
    /\ pc = "threw" <=> (settled = "rejected" \/ (workerCount <= 1 /\ summary = NoSummary))

\* witness of C10: a text-mode scan has exited with 0 although it found
\* warnings and logged notifications
C10_CleanExitWithWarnings ==
  /\ exitCode = 0
  /\ outputFormat = "text"
  /\ pc = "returned"
  /\ summary.filesWithWarnings > 0

\* C11: every input path that does not exist is reported by an error-level
\* notification of the returned summary (the notification naming the path, or
\* the notice that all paths are missing), and the existing paths are scanned.
C11_MissingPathsNotified ==
  pc = "returned" =>
    /\ \A k \in 1..Len(filePaths) :
         ~checkPathExists(filePaths[k]) =>
           \E n \in 1..Len(summary.notifications) :
             /\ summary.notifications[n].level = "error"
             /\ \/ summary.notifications[n].file = filePaths[k]
                \/ summary.notifications[n].message = "allPathsMissing"
    /\ FilePathsOf(summary.files) = ScannableInput(filePaths)

RECURSIVE SumSeq(_)
SumSeq(numbers) == IF numbers = <<>> THEN 0 ELSE Head(numbers) + SumSeq(Tail(numbers))

\* C12: in a returned summary violationTotals.total is the sum of the files'
\* totalViolations, and violationTotals.error, .warning and .optimizing are the
\* sums of the files' counts of that severity.
C12_TotalsAreSums ==
  pc = "returned" =>
    /\ summary.violationTotals.total
         = SumSeq([k \in 1..Len(summary.files) |-> summary.files[k].totalViolations])
    /\ summary.violationTotals.error
         = SumSeq([k \in 1..Len(summary.files) |-> summary.files[k].severityCounts.error])
    /\ summary.violationTotals.warning
         = SumSeq([k \in 1..Len(summary.files) |-> summary.files[k].severityCounts.warning])
    /\ summary.violationTotals.optimizing
         = SumSeq([k \in 1..Len(summary.files) |-> summary.files[k].severityCounts.optimizing])

\* witness of C12: a returned summary of several files with violations of
\* every severity
C12_SeveralFilesEverySeverity ==
  /\ pc = "returned"
  /\ Len(summary.files) >= 2
  /\ summary.violationTotals.error > 0
  /\ summary.violationTotals.warning > 0
  /\ summary.violationTotals.optimizing > 0
  /\ \E i \in 1..Len(summary.files), j \in 1..Len(summary.files) :
       i # j /\ summary.files[i].totalViolations > 0 /\ summary.files[j].totalViolations > 0

\* the console output of the files of a sequence of per-file summaries: for
\* each file in turn the logs its analysis captures, in capture order, and
\* then its violations
RECURSIVE LogOutputs(_)
LogOutputs(logs) ==
  IF logs = <<>> THEN <<>> ELSE <<LogOutput(Head(logs))>> \o LogOutputs(Tail(logs))

RECURSIVE FileOutputs(_)
FileOutputs(files) ==
  IF files = <<>> THEN <<>>
  ELSE LogOutputs(analyzeFile(Head(files).filePath, Rules, {}).logs)
         \o <<ViolationsOutput(Head(files).filePath, Head(files).violations)>>
         \o FileOutputs(Tail(files))

RECURSIVE FileLogs(_)
FileLogs(files) ==
  IF files = <<>> THEN <<>>
  ELSE analyzeFile(Head(files).filePath, Rules, {}).logs \o FileLogs(Tail(files))

\* C13: the logs captured while a file is analysed are emitted in capture
\* order after all output of the earlier files and immediately before the
\* file's own violations, in the single-threaded loop (cache replays
\* included) and in the parallel path whatever the completion order: at any
\* moment the console holds exactly the logs-then-violations blocks of the
\* files accounted for so far, in input order, and the notifications hold
\* their logs in the same order.
C13_LogsThenViolationsPerFile ==
  scannableFiles # <<>> =>
    /\ acc.notifications = FileLogs(acc.fileSummaries)
    /\ acc.output = IF outputFormat = "text" THEN FileOutputs(acc.fileSummaries) ELSE <<>>
    /\ \A k \in 1..Len(acc.fileSummaries) :
         acc.fileSummaries[k].filePath = scannableFiles[k]

\* witness of C13: in the parallel path a later file has completed while an
\* earlier one has not, and the console holds the log and then the violations
\* of a file flushed before
C13_LogBeforeViolationsOutOfOrder ==
  /\ pc = "pool"
  /\ outputFormat = "text"
  /\ \E k \in DOMAIN pendingResults : k > nextOutputIndex
  /\ \E n \in 1..(Len(acc.output) - 1) :
       /\ acc.output[n].kind = "log"
       /\ acc.output[n + 1].kind = "violations"
       /\ acc.output[n + 1].file = acc.output[n].file
       /\ acc.output[n + 1].violations # <<>>

RecordsOfRule(violations, ruleName) ==
  Cardinality({m \in 1..Len(violations) : violations[m].ruleName = ruleName})

\* C14: when a rule throws on a file, the findings it had reported are kept,
\* every later rule still runs on the file and reports its findings, the
\* failure is an error notification naming the rule and the file, and neither
\* the file (no error reply of a worker) nor the scan fails because of it.
C14_RuleFailureIsContained ==
  /\ pc = "returned" =>
       \A k \in 1..Len(summary.files) : \A i \in 1..Len(Rules) :
         (RuleThrows(Rules[i].name, summary.files[k].filePath)
            /\ ~ParseFails(summary.files[k].filePath)) =>
           /\ \A j \in i..Len(Rules) :
                ~IsCycleViolation([ruleName |-> Rules[j].name]) =>
                  RecordsOfRule(summary.files[k].violations, Rules[j].name)
                    = StaticFindings(Rules[j].name, summary.files[k].filePath)
           /\ \E n \in 1..Len(summary.notifications) :
                summary.notifications[n]
                  = ruleExecutionFailed(Rules[i].name, summary.files[k].filePath)
  /\ \A w \in DOMAIN chan : \A n \in 1..Len(chan[w]) :
       chan[w][n].type = "error" => ReadFails(chan[w][n].filePath)
  /\ (pc = "threw" /\ workerCount <= 1) => ReadFails(scannableFiles[cursor])

\* witness of C14: a returned summary holds a file on which the first rule
\* threw, with the finding of that rule, the findings of a later rule and the
\* error notification
C14_LaterRulesReported ==
  /\ pc = "returned"
  /\ \E k \in 1..Len(summary.files) :
       /\ RuleThrows(Rules[1].name, summary.files[k].filePath)
       /\ RecordsOfRule(summary.files[k].violations, Rules[1].name) = 1
       /\ RecordsOfRule(summary.files[k].violations, Rules[3].name) = 2
       /\ \E n \in 1..Len(summary.notifications) :
            summary.notifications[n]
              = ruleExecutionFailed(Rules[1].name, summary.files[k].filePath)

\* the 'exit' handler runs for worker w: its exit event leaves the channel
ExitHandled(w) ==
  /\ pc = "pool"
  /\ w \in DOMAIN chan
  /\ chan[w] # <<>>
  /\ Head(chan[w]).type = "exit"
  /\ chan'[w] = Tail(chan[w])

\* C15: when the exit of a worker with a non-zero status is handled while
\* fewer than all tasks have completed, the pool promise is rejected after the
\* step (it neither resolves nor stays pending), a rejected promise never
\* resolves later, and run() never returns a summary from a rejected pool.
C15_NonZeroExitRejects ==
  [][/\ \A w \in Workers :
          (ExitHandled(w) /\ Head(chan[w]).code # 0 /\ completed < Len(tasks))
            => settled' = "rejected"
     /\ settled = "rejected" => (settled' = "rejected" /\ pc' # "returned")]_vars

\* witness of C15: the scan failed because a worker exited with a non-zero
\* status before all tasks had completed, with no other failure before it
C15_ScanFailedOnWorkerExit ==
  /\ pc = "threw"
  /\ settled = "rejected"
  /\ poolError = "workerExited"
  /\ completed < Len(tasks)
  /\ completed > 0

\* the override is in force: AUTO_CR_WORKERS is a number >= 0
OverrideInForce(env) == env.present /\ ~env.isNaN /\ env.halves >= 0

\* the default worker count for n files on a machine with the given CPUs
DefaultCount(n, cpus) ==
  IF n < MIN_FILES_FOR_WORKERS THEN 1
  ELSE IF cpus - 1 < 1 THEN 1
  ELSE IF cpus - 1 > n THEN n
  ELSE cpus - 1

\* C16 as stated: the selected count is the override clamped to [0, N] when
\* AUTO_CR_WORKERS is a number >= 0, otherwise 1 when N < 20, otherwise
\* max(1, cpuCount - 1) clamped to at most N. (Counts are compared in halves.)
C16_OverrideClampedOrDefault ==
  (pc = "call" /\ call.fn = "resolveWorkerCount" /\ call.done) =>
    IF OverrideInForce(call.args[2])
    THEN call.result + call.result
           = (IF call.args[2].halves > call.args[1] + call.args[1]
              THEN call.args[1] + call.args[1] ELSE call.args[2].halves)
    ELSE call.result = DefaultCount(call.args[1], call.args[3])

\* C16 (amended): the selected count is the override rounded down to a whole
\* number and then clamped to at most N when AUTO_CR_WORKERS is a number >= 0,
\* otherwise 1 when N < 20, otherwise max(1, cpuCount - 1) clamped to at most N.
C16_FlooredOverrideClampedOrDefault ==
  (pc = "call" /\ call.fn = "resolveWorkerCount" /\ call.done) =>
    IF OverrideInForce(call.args[2])
    THEN /\ call.result \in 0..call.args[1]
         /\ call.result + call.result <= call.args[2].halves
         /\ call.result = call.args[1] \/ call.args[2].halves < call.result + call.result + 2
    ELSE call.result = DefaultCount(call.args[1], call.args[3])

\* witness of C16: an override that is not whole and below the file count has
\* been rounded down
C16_FractionalOverrideBelowFileCount ==
  /\ pc = "call" /\ call.fn = "resolveWorkerCount" /\ call.done
  /\ OverrideInForce(call.args[2])
  /\ call.args[2].halves = call.result + call.result + 1
  /\ call.result > 1
  /\ call.result < call.args[1]

\* the nodes of a tree from the root down to its leaf
RECURSIVE Spine(_)
Spine(node) ==
  IF node.type = "null" THEN <<>>
  ELSE <<[type |-> node.type, method |-> node.method, field |-> node.field]>>
         \o (IF node.field = "" THEN <<>> ELSE Spine(node.child))

\* position i of the spine is a function and the next node lies in its body
IsFunctionBody(spine, i) ==
  /\ spine[i].type \in {"FunctionDeclaration", "FunctionExpression",
                        "ArrowFunctionExpression", "MethodProperty"}
  /\ spine[i].field = "body"

\* the function at position i is the first argument of a hot array method
IsHotCallback(spine, i) ==
  /\ i > 1
  /\ spine[i].type \in {"FunctionExpression", "ArrowFunctionExpression"}
  /\ spine[i - 1].type = "CallExpression"
  /\ spine[i - 1].method \in HOT_CALLBACK_METHODS
  /\ spine[i - 1].field = "arg0"

\* position i is a loop and the next node lies in its repeated part
IsLoopHotPart(spine, i) ==
  \/ spine[i].type = "ForStatement" /\ spine[i].field \in {"test", "update", "body"}
  \/ spine[i].type \in {"WhileStatement", "DoWhileStatement"}
       /\ spine[i].field \in {"test", "body"}
  \/ spine[i].type \in {"ForInStatement", "ForOfStatement"} /\ spine[i].field = "body"

\* C17: the hot flag never crosses a function boundary: a call, new-expression
\* or regex literal whose innermost enclosing function is not the direct
\* first-argument callback of a hot array method is recorded as hot only if a
\* loop (or a hot callback) lies between that function and the node.
C17_HotStopsAtFunctionBoundary ==
  (pc = "call" /\ call.fn = "analyzeModule" /\ call.done) =>
    LET spine == Spine(call.args[1])
    IN \A k \in call.result : \A j \in 1..(k - 1) :
         (/\ IsFunctionBody(spine, j)
          /\ ~IsHotCallback(spine, j)
          /\ \A i \in (j + 1)..(k - 1) : ~IsFunctionBody(spine, i))
           => \E i \in (j + 1)..(k - 1) : IsLoopHotPart(spine, i)

\* the character at position i of a pattern is escaped by a backslash
RECURSIVE IsEscapedChar(_, _)
IsEscapedChar(pattern, i) ==
  i > 1 /\ pattern[i - 1] = "\\" /\ ~IsEscapedChar(pattern, i - 1)

\* position i lies inside a character class opened before it
RECURSIVE InsideClass(_, _)
InsideClass(pattern, i) ==
  /\ i > 1
  /\ \/ /\ InsideClass(pattern, i - 1)
        /\ ~(pattern[i - 1] = "]" /\ ~IsEscapedChar(pattern, i - 1))
     \/ /\ ~InsideClass(pattern, i - 1)
        /\ pattern[i - 1] = "[" /\ ~IsEscapedChar(pattern, i - 1)

\* position i holds the closing parenthesis of a group
ClosesGroup(pattern, i) ==
  pattern[i] = ")" /\ ~IsEscapedChar(pattern, i) /\ ~InsideClass(pattern, i)

\* an unbounded quantifier starts at position i: *, + or {m,}
UnboundedQuantifierAt(pattern, i) ==
  /\ i <= Len(pattern)
  /\ \/ pattern[i] \in {"*", "+"}
     \/ /\ pattern[i] = "{"
        /\ \E end \in (i + 3)..Len(pattern) :
             /\ pattern[end] = "}"
             /\ pattern[end - 1] = ","
             /\ \A k \in (i + 1)..(end - 2) : pattern[k] \in Digits

\* C18: a pattern in which every closing parenthesis of a group is followed by
\* no quantifier or by a bounded one (?, {m}, {m,n}) is never reported,
\* whatever unbounded quantifiers occur inside the groups.
C18_BoundedGroupsNotReported ==
  (pc = "call" /\ call.fn = "hasNestedUnboundedQuantifier" /\ call.done) =>
    ((\A i \in 1..Len(call.args[1]) :
        ClosesGroup(call.args[1], i) => ~UnboundedQuantifierAt(call.args[1], i + 1))
       => call.result = FALSE)

\* witness of C18: the pattern (a+){1,3} has been scanned and is not reported
C18_BoundedRepeatOfUnboundedGroup ==
  /\ pc = "call" /\ call.fn = "hasNestedUnboundedQuantifier" /\ call.done
  /\ call.args[1] = <<"(", "a", "+", ")", "{", "1", ",", "3", "}">>
  /\ call.result = FALSE

\* C19: for a fixed source text and moduleStart the line resolved from a byte
\* offset never decreases when the byte offset grows, and the byte offset
\* moduleStart resolves to line 1.
C19_LineMonotoneFromOne ==
  (pc = "call" /\ call.fn = "resolveLineFromByteOffset") =>
    /\ \A b1 \in 1..Len(call.result) : \A b2 \in b1..Len(call.result) :
         call.result[b1] <= call.result[b2]
    /\ Len(call.result) > call.args[2] => call.result[call.args[2] + 1] = 1

\* witness of C19: in a text with a multi-byte character before a line feed
\* the offsets from moduleStart on have been resolved, up to the second line
C19_SecondLineAfterMultiByte ==
  /\ pc = "call" /\ call.fn = "resolveLineFromByteOffset"
  /\ call.args[2] > 0
  /\ Len(call.args[1]) >= 2
  /\ call.args[1][1] > 127
  /\ call.args[1][2] = NewLine
  /\ Len(call.result) > call.args[2] + 1
  /\ call.result[call.args[2] + 1] = 1
  /\ call.result[Len(call.result)] = 2

\* C20: every parallel scan eventually finishes: when every started worker
\* answers each request it receives or stops (thread error, or exit with any
\* status), the worker-pool promise eventually resolves or rejects.
C20_PoolEventuallySettles ==
  (pc = "pool") ~> (settled # "pending")

\* the analyze requests posted to worker w that no reply has answered yet
Outstanding(w) ==
  {i \in 1..Len(requests[w]) : replyCount[requests[w][i]] = 0}

\* C21: at every point of a parallel scan each worker has at most one analyze
\* request that was sent to it and is not yet answered.
C21_OneOutstandingRequestPerWorker ==
  \A w \in DOMAIN requests : Cardinality(Outstanding(w)) <= 1

\* witness of C21: a worker has been sent a second request, after its first
\* one was answered, and has not answered it yet
C21_SecondRequestOutstanding ==
  \E w \in DOMAIN requests :
    /\ Len(requests[w]) >= 2
    /\ replyCount[requests[w][1]] = 1
    /\ Cardinality(Outstanding(w)) = 1

\* the analyze requests that carried `path`, as pairs of worker and position
DispatchesOf(path) ==
  {d \in {<<w, i>> : w \in DOMAIN requests, i \in 1..MaxInput + 1} :
     /\ d[2] <= Len(requests[d[1]])
     /\ tasks[requests[d[1]][d[2]] + 1] = path}

\* C22: when a scan has returned its summary, analyzeFile has been called
\* exactly once on each scannable path, however often the path occurs in the
\* input; in the parallel path each path was posted in exactly one request.
C22_EachPathAnalysedOnce ==
  (pc = "returned") =>
    \A k \in 1..Len(scannableFiles) :
      /\ analyses[scannableFiles[k]] = 1
      /\ workerCount > 1 => Cardinality(DispatchesOf(scannableFiles[k])) = 1

\* witness of C22: a parallel scan of several paths, one of them given twice,
\* has returned
C22_RepeatedPathScannedInParallel ==
  /\ pc = "returned"
  /\ workerCount > 1
  /\ Len(tasks) >= 2
  /\ Len(scannableFiles) > Len(tasks)
  /\ \A id \in DOMAIN replyCount : replyCount[id] = 1

\* a single-threaded scan of a path given twice has returned
C22_RepeatedPathScannedInLoop ==
  /\ pc = "returned"
  /\ workerCount = 1
  /\ \E j, k \in 1..Len(scannableFiles) : j < k /\ scannableFiles[j] = scannableFiles[k]

\* C26: the violations of no-swallowed-errors on a file are listed in the
\* source order of the offending try statements: of two reported statements
\* the one that starts first in the source is listed first.
C26_ViolationsInSourceOrder ==
  (pc = "call" /\ call.fn = "noSwallowedErrors" /\ call.done) =>
    \A i, j \in 1..Len(call.result) :
      i < j => call.result[i].statement < call.result[j].statement

\* the span of the violation as reportViolation sees it: the span of the
\* input, or else the span argument
ViolationSpan(input, spanArg) ==
  IF ~input.isString /\ input.span.present THEN input.span ELSE spanArg

\* C27: when the rule's reporter has no record channel, reportViolation
\* reports through errorAtSpan if the violation has a span, otherwise through
\* errorAtLine if it has a line, otherwise through error.
C27_FallbackSpanLineError ==
  (pc = "call" /\ call.fn = "reportViolation" /\ call.done /\ ~call.args[2].hasRecord) =>
    call.result.channel =
      IF ViolationSpan(call.args[3], call.args[4]).present THEN "errorAtSpan"
      ELSE IF ~call.args[3].isString /\ call.args[3].line.present THEN "errorAtLine"
      ELSE "error"

\* the same statement for the helper of createRuleHelpers alone
C27_RulesPackageHelperFallback ==
  (call.fn = "reportViolation" /\ call.args[1] = "createRuleHelpers") =>
    C27_FallbackSpanLineError

\* the modules a module imports in a project
ImportsOf(project, file) ==
  {resolvedImportsIn(project, file)[k] : k \in 1..Len(resolvedImportsIn(project, file))}

\* whether `target` is among `frontier` or at most `steps` import edges away
\* from it; `seen` holds the modules left behind
RECURSIVE WithinSteps(_, _, _, _, _)
WithinSteps(project, frontier, seen, steps, target) ==
  IF target \in frontier THEN TRUE
  ELSE IF steps = 0 \/ frontier = {} THEN FALSE
  ELSE WithinSteps(project,
                   UNION {ImportsOf(project, file) : file \in frontier \cap ModulesOf(project)}
                     \ (seen \cup frontier),
                   seen \cup frontier, steps - 1, target)

\* the number of modules reachable from module 0 of a project (in a chain and
\* in a tree every module is)
ReachableCount(project) ==
  IF project.kind = "table"
  THEN Cardinality({file \in ModulesOf(project) :
                      WithinSteps(project, {0}, {}, Cardinality(ModulesOf(project)), file)})
  ELSE Cardinality(ModulesOf(project))

SearchDone == pc = "call" /\ call.fn = "findPathToOrigin" /\ call.done

\* C23: if origin is reachable from the start module by at most
\* MAX_GRAPH_DEPTH import edges and at most MAX_GRAPH_NODES modules are
\* reachable from the start, findPathToOrigin returns a path, whatever the
\* order of the imports.
C23_ReachableOriginIsFound ==
  (/\ SearchDone
   /\ WithinSteps(call.args[3], {call.args[1]}, {}, MAX_GRAPH_DEPTH, call.args[2])
   /\ ReachableCount(call.args[3]) <= MAX_GRAPH_NODES)
    => call.result.result # <<>>

\* C28: a path that findPathToOrigin returns begins with the start module,
\* ends with origin, holds no module twice, and each module of it imports
\* the next one.
C28_ReturnedPathIsSimpleImportPath ==
  (SearchDone /\ call.result.result # <<>>) =>
    LET path == call.result.result
    IN /\ path[1] = call.args[1]
       /\ path[Len(path)] = call.args[2]
       /\ \A i, j \in 1..Len(path) : i # j => path[i] # path[j]
       /\ \A i \in 1..(Len(path) - 1) : path[i + 1] \in ImportsOf(call.args[3], path[i])

\* witness of C28: a path of three modules was found after the search had
\* given up on another module
C28_PathFoundAfterDeadEnd ==
  /\ SearchDone
  /\ Len(call.result.result) >= 3
  /\ call.result.deadEnds # {}

\* the limits of a search: the modules whose imports were computed, the
\* depth of the deepest of them, and the height of the call stack
SearchIsBounded ==
  (pc = "call" /\ call.fn = "findPathToOrigin") =>
    /\ call.result.expanded <= MAX_GRAPH_NODES
    /\ call.result.deepest <= MAX_GRAPH_DEPTH
    /\ Len(call.result.frames) <= MAX_GRAPH_DEPTH + 1

\* C29: at every step of a search the imports of at most MAX_GRAPH_NODES
\* modules have been computed, of no module deeper than MAX_GRAPH_DEPTH
\* edges below the start along the call stack, and the search ends on every
\* graph, cyclic ones included.
C29_SearchIsBoundedAndEnds == []SearchIsBounded /\ <>SearchDone

\* a search was cut short by the limit on visited modules
C29_NodeLimitReached ==
  /\ SearchDone
  /\ call.result.nodesVisited > MAX_GRAPH_NODES
  /\ call.result.expanded = MAX_GRAPH_NODES
  /\ call.result.result = <<>>

\* witness of C29: a search was cut short by the depth limit, at the
\* deepest module it may expand
C29_DepthLimitReached ==
  /\ SearchDone
  /\ call.result.deepest = MAX_GRAPH_DEPTH
  /\ call.result.result = <<>>

\* a search on a table with a cycle ended without a path
C29_CyclicGraphSearched ==
  /\ SearchDone
  /\ call.args[3].kind = "table"
  /\ call.result.result = <<>>
  /\ \E file \in ModulesOf(call.args[3]) :
       WithinSteps(call.args[3], ImportsOf(call.args[3], file), {}, MaxModules, file)

\* on a table the steps of the search give what the recursive walk gives
SearchAgreesWithWalk ==
  (SearchDone /\ call.args[3].kind = "table") =>
    call.result.result = findPathToOrigin(call.args[1], call.args[2], call.args[3].table)

\* worker w, still running, returns a result while no unsent task remains
ResultWithQueueDrained(w) ==
  /\ OnMessage(w)
  /\ wstatus[w] # "exited"
  /\ Head(chan[w]).type = "result"
  /\ nextTaskIndex >= Len(tasks)

\* the 'message' handler has posted a shutdown to worker w
ShutdownPosted(w) ==
  /\ Len(inbox'[w]) = Len(inbox[w]) + 1
  /\ inbox'[w][Len(inbox'[w])].type = "shutdown"

\* C24: whenever a worker returns a result and no unsent task remains, that
\* worker is sent a shutdown message, the worker that returns the last
\* outstanding result included.
C24_ShutdownWhenQueueDrained ==
  [][\A w \in DOMAIN chan : ResultWithQueueDrained(w) => ShutdownPosted(w)]_vars

\* the same for every result but the last outstanding one
C24_ShutdownUnlessLastResult ==
  [][\A w \in DOMAIN chan :
       (ResultWithQueueDrained(w) /\ completed + 1 < Len(tasks)) => ShutdownPosted(w)]_vars

\* the pool call is over: run() has resumed after `await runWorkerPool(...)`
PoolFinished == tasks # <<>> /\ pc \in {"returned", "threw"}

\* C25: when the worker pool finishes, by resolving or by rejecting,
\* terminate has been invoked on every worker that was started, and none of
\* them is still running.
C25_NoWorkerOutlivesPool ==
  PoolFinished =>
    /\ Len(wstatus) = Len(requests)
    /\ terminated = DOMAIN wstatus
    /\ \A w \in DOMAIN wstatus : wstatus[w] = "exited"

\* witness of C25: the pool resolved and run() returned with two workers
\* started, after terminate() was called on both
C25_ResolvedPoolTerminatedWorkers ==
  /\ pc = "returned"
  /\ settled = "resolved"
  /\ Len(wstatus) = MaxWorkers
  /\ terminated = 1..MaxWorkers

\* the pool rejected while a worker was inside analyzeFile, and terminate()
\* was called on it
C25_RejectedPoolTerminatedWorker ==
  /\ pc = "pool"
  /\ settled = "rejected"
  /\ \E w \in terminated : wstatus[w] = "busy"

\* terminate() reached a worker whose thread had not started: its exit
\* carries code 0 and does not fail the pool again
C25_TerminatedBeforeStart ==
  /\ pc = "pool"
  /\ crashes = 0
  /\ settled = "rejected"
  /\ \E w \in terminated : chan[w] # <<>> /\ Head(chan[w]) = ThreadEvent("exit", 0)

KeysDone == pc = "call" /\ call.fn = "buildCycleKey" /\ call.done

\* C30: the key of a cycle of distinct files does not depend on the file
\* taken as origin: buildCycleKey gives the same key for every rotation of
\* the cycle.
C30_KeyIsRotationInvariant ==
  KeysDone => call.result[1] = call.result[2]

\* witness of C30: a cycle of three or more files entered at another file,
\* whose key is neither of the two chains as found
C30_KeyDiffersFromBothChains ==
  /\ KeysDone
  /\ Len(call.args[1]) >= 4
  /\ call.args[1] # call.args[2]
  /\ call.result[1] # SubSeq(call.args[1], 1, Len(call.args[1]) - 1)
  /\ call.result[2] # SubSeq(call.args[2], 1, Len(call.args[2]) - 1)

\* the key holds every file of the cycle once and begins with the least
C30_KeyStartsAtLeastFile ==
  (KeysDone /\ Len(call.args[1]) > 2) =>
    /\ Len(call.result[1]) = Len(call.args[1]) - 1
    /\ \A i \in 1..Len(call.result[1]) : Rank[call.result[1][1]] <= Rank[call.result[1][i]]

====
